---- MODULE Spec2Model ----
(***************************************************************************)
(* A model of knftables' Fake (the in-memory transactional engine).        *)
(*                                                                         *)
(* Go values are modelled as follows.                                      *)
(*   - An optional field (a pointer to an int, string or uint64) is a     *)
(*     sequence: << >> is nil and <<v>> is PtrTo(v).                       *)
(*   - A Go map is a function whose DOMAIN is the set of keys present.     *)
(*   - fake.Tables (a map of maps of FakeTable)       is flattened to a    *)
(*     function from the resolved table name to the table.                 *)
(*   - A slice is a sequence; Go's 0-based positions are kept (findRule    *)
(*     returns a 0-based position or -1) and converted where the sequence  *)
(*     is indexed.                                                         *)
(*   - Objects the code copies by value before storing (Table, Chain,      *)
(*     Flowtable, Set, Map, Rule, Element) are values.  A FakeCounter is   *)
(*     the only stored object that is both shared between the committed    *)
(*     forest and a working copy and written in place, so counters live in *)
(*     an explicit heap and a table's Counters map holds addresses.        *)
(*   - A Counter passed to a transaction is written by the apply pass      *)
(*     (obj.Handle = ...), so a transaction carries the Handle fields of   *)
(*     the caller's Counter objects (tx.objs) and a counter operation      *)
(*     names its object by a pointer (obj.ptr).                            *)
(***************************************************************************)
EXTENDS Integers, Sequences, FiniteSets, TLC

VARIABLES
    Tables,           \* fake.Tables: the committed forest
    heap,             \* the FakeCounter objects reachable from Tables
    nextHandle,       \* fake.nextHandle
    LastTransaction,  \* fake.LastTransaction
    ret,              \* the last call that returned and its error
    mutex,            \* fake.RWMutex: the writer and the readers that hold it
    thr,              \* the calls in progress, one per calling goroutine
    obs,              \* the last read call and the result it returned
    published         \* the states that successful Runs have committed

vars == <<Tables, heap, nextHandle, LastTransaction, ret, mutex, thr, obs,
          published>>

\* what a call that runs alone leaves as it is
concVars == <<mutex, thr, obs, published>>

(***************************************************************************)
(* Bounds of the model.                                                    *)
(***************************************************************************)
\* handles are capped so that the state space is finite
MaxHandle == 5

(***************************************************************************)
(* Verbs, error classes and small helpers.                                 *)
(***************************************************************************)
addVerb == "add"
createVerb == "create"
insertVerb == "insert"
replaceVerb == "replace"
deleteVerb == "delete"
destroyVerb == "destroy"
flushVerb == "flush"
resetVerb == "reset"

\* the nil error
NoErr == "nil"
\* notFoundError(...)
NotFound == "NotFound"
\* existsError(...)
AlreadyExists == "AlreadyExists"
\* fmt.Errorf("unhandled operation ...") and other untyped errors
OtherErr == "Other"
\* a run-time panic (index or slice bounds out of range, nil dereference)
Panic == "panic"

\* the nil pointer and PtrTo(v)
Nil == << >>
PtrTo(v) == <<v>>

\* m[k] = v on a Go map
MapPut(m, k, v) == [x \in (DOMAIN m) \cup {k} |-> IF x = k THEN v ELSE m[x]]
\* delete(m, k) on a Go map
MapDelete(m, k) == [x \in (DOMAIN m) \ {k} |-> m[x]]
\* make(map[...]...)
EmptyMap == [x \in {} |-> 0]

\* s[i:] and s[:i] of a slice, i a 0-based position with 0 <= i <= len(s)
SliceFrom(s, i) == SubSeq(s, i + 1, Len(s))
SliceTo(s, i) == SubSeq(s, 1, i)

(***************************************************************************)
(* The engine's binding (NewFake(family, table)) and table resolution.     *)
(***************************************************************************)
\* fake.table of an engine made by NewFake(IPv4Family, "t1")
DefaultTable == "t1"

\* getTable: an object that names no table gets the engine's table
getTable(name) == IF name = "" THEN DefaultTable ELSE name

(***************************************************************************)
(* Helpers of the apply pass.                                              *)
(***************************************************************************)
\* the working state of an apply pass: updatedTables, the counter heap,
\* fake.nextHandle, the Handle fields of the caller's Counter objects and
\* the error the pass returns
Fail(st, e) == [st EXCEPT !.err = e]

checkExists_DestroyRequires(verb, exists) ==
    CASE verb = addVerb -> NoErr
      [] verb = createVerb -> IF exists THEN AlreadyExists ELSE NoErr
      [] OTHER -> IF ~exists THEN NotFound ELSE NoErr

checkExists(verb, exists) ==
    CASE verb \in {addVerb, destroyVerb} -> NoErr
      [] verb = createVerb -> IF exists THEN AlreadyExists ELSE NoErr
      [] OTHER -> IF ~exists THEN NotFound ELSE NoErr

\* fake.checkTable reports whether the table is missing
checkTable(updatedTables, tableName) ==
    IF tableName \in DOMAIN updatedTables THEN NoErr ELSE NotFound

\* the 0-based position of the first rule with the handle, or -1
RECURSIVE findRuleFrom(_, _, _)
findRuleFrom(rules, handle, i) ==
    IF i >= Len(rules) THEN -1
    ELSE IF rules[i + 1].Handle # Nil /\ rules[i + 1].Handle[1] = handle THEN i
    ELSE findRuleFrom(rules, handle, i + 1)

findRule(rules, handle) == findRuleFrom(rules, handle, 0)

\* the 0-based position of the first element with the key, or -1
RECURSIVE findElementFrom(_, _, _)
findElementFrom(elements, key, i) ==
    IF i >= Len(elements) THEN -1
    ELSE IF elements[i + 1].Key = key THEN i
    ELSE findElementFrom(elements, key, i + 1)

findElement(elements, key) == findElementFrom(elements, key, 0)

\* FakeTable.copy: new maps and new arrays; the chains, sets, maps and
\* flowtables are new objects, the counters are the same objects (the copy's
\* Counters map holds the addresses of the original's FakeCounters)
copy(table) ==
    [Table |-> table.Table,
     Flowtables |-> [n \in DOMAIN table.Flowtables |->
                        [Flowtable |-> table.Flowtables[n].Flowtable]],
     Chains |-> [n \in DOMAIN table.Chains |->
                        [Chain |-> table.Chains[n].Chain,
                         Rules |-> SliceFrom(table.Chains[n].Rules, 0)]],
     Sets |-> [n \in DOMAIN table.Sets |->
                        [Set |-> table.Sets[n].Set,
                         Elements |-> SliceFrom(table.Sets[n].Elements, 0)]],
     Maps |-> [n \in DOMAIN table.Maps |->
                        [Map |-> table.Maps[n].Map,
                         Elements |-> SliceFrom(table.Maps[n].Elements, 0)]],
     Counters |-> [n \in DOMAIN table.Counters |-> table.Counters[n]]]

(***************************************************************************)
(* The apply pass, one operator per object type of the type switch.        *)
(***************************************************************************)
applyTable_AddReplaces(st, verb, obj) ==
    LET tableName == getTable(obj.Name)
        exists == tableName \in DOMAIN st.Tables
        err == checkExists(verb, exists)
        newTable == [Table |-> [obj EXCEPT !.Handle = PtrTo(st.nextHandle)],
                     Flowtables |-> EmptyMap, Chains |-> EmptyMap,
                     Sets |-> EmptyMap, Maps |-> EmptyMap,
                     Counters |-> EmptyMap]
    IN  IF err # NoErr THEN Fail(st, err)
        ELSE CASE verb \in {flushVerb, addVerb, createVerb} ->
                    [st EXCEPT !.Tables = MapPut(@, tableName, newTable)]
               [] verb \in {deleteVerb, destroyVerb} ->
                    IF exists THEN [st EXCEPT !.Tables = MapDelete(@, tableName)]
                    ELSE st
               [] OTHER -> Fail(st, OtherErr)

\* case *Table
applyTable(st, verb, obj) ==
    LET tableName == getTable(obj.Name)
        exists == tableName \in DOMAIN st.Tables
        err == checkExists(verb, exists)
        newTable == [Table |-> [obj EXCEPT !.Handle = PtrTo(st.nextHandle)],
                     Flowtables |-> EmptyMap, Chains |-> EmptyMap,
                     Sets |-> EmptyMap, Maps |-> EmptyMap,
                     Counters |-> EmptyMap]
    IN  IF err # NoErr THEN Fail(st, err)
        ELSE CASE verb = flushVerb ->
                    [st EXCEPT !.Tables = MapPut(@, tableName, newTable)]
               [] verb \in {addVerb, createVerb} ->
                    IF exists THEN st
                    ELSE [st EXCEPT !.Tables = MapPut(@, tableName, newTable)]
               [] verb \in {deleteVerb, destroyVerb} ->
                    IF exists THEN [st EXCEPT !.Tables = MapDelete(@, tableName)]
                    ELSE st
               [] OTHER -> Fail(st, OtherErr)

\* case *Flowtable
applyFlowtable(st, verb, obj) ==
    LET tableName == getTable(obj.Table)
        terr == checkTable(st.Tables, tableName)
        table == st.Tables[tableName]
        exists == obj.Name \in DOMAIN table.Flowtables
        err == checkExists(verb, exists)
        flowtable == [Flowtable |-> [obj EXCEPT !.Handle = PtrTo(st.nextHandle)]]
    IN  IF terr # NoErr THEN Fail(st, terr)
        ELSE IF err # NoErr THEN Fail(st, err)
        ELSE CASE verb \in {addVerb, createVerb} ->
                    IF exists THEN st
                    ELSE [st EXCEPT !.Tables[tableName].Flowtables =
                                        MapPut(@, obj.Name, flowtable)]
               [] verb \in {deleteVerb, destroyVerb} ->
                    [st EXCEPT !.Tables[tableName].Flowtables = MapDelete(@, obj.Name)]
               [] OTHER -> Fail(st, OtherErr)

applyChain_FlushDeletes(st, verb, obj) ==
    LET tableName == getTable(obj.Table)
        terr == checkTable(st.Tables, tableName)
        table == st.Tables[tableName]
        exists == obj.Name \in DOMAIN table.Chains
        err == checkExists(verb, exists)
        chain == [Chain |-> [obj EXCEPT !.Handle = PtrTo(st.nextHandle)],
                  Rules |-> << >>]
    IN  IF terr # NoErr THEN Fail(st, terr)
        ELSE IF err # NoErr THEN Fail(st, err)
        ELSE CASE verb \in {addVerb, createVerb} ->
                    IF exists THEN st
                    ELSE [st EXCEPT !.Tables[tableName].Chains =
                                        MapPut(@, obj.Name, chain)]
               [] verb \in {flushVerb, deleteVerb, destroyVerb} ->
                    [st EXCEPT !.Tables[tableName].Chains = MapDelete(@, obj.Name)]
               [] OTHER -> Fail(st, OtherErr)

\* case *Chain
applyChain(st, verb, obj) ==
    LET tableName == getTable(obj.Table)
        terr == checkTable(st.Tables, tableName)
        table == st.Tables[tableName]
        exists == obj.Name \in DOMAIN table.Chains
        err == checkExists(verb, exists)
        chain == [Chain |-> [obj EXCEPT !.Handle = PtrTo(st.nextHandle)],
                  Rules |-> << >>]
    IN  IF terr # NoErr THEN Fail(st, terr)
        ELSE IF err # NoErr THEN Fail(st, err)
        ELSE CASE verb \in {addVerb, createVerb} ->
                    IF exists THEN st
                    ELSE [st EXCEPT !.Tables[tableName].Chains =
                                        MapPut(@, obj.Name, chain)]
               [] verb = flushVerb ->
                    [st EXCEPT !.Tables[tableName].Chains[obj.Name].Rules = << >>]
               [] verb \in {deleteVerb, destroyVerb} ->
                    [st EXCEPT !.Tables[tableName].Chains = MapDelete(@, obj.Name)]
               [] OTHER -> Fail(st, OtherErr)

(***************************************************************************)
(* Rule bodies.  Rule.Rule is a string that checkRuleRefs splits at the    *)
(* spaces; the model keeps the words.  A word is a record: "at" says that  *)
(* the word starts with "@", "text" is the word without that "@", and      *)
(* "comma" says that the word contains a ",".                              *)
(***************************************************************************)
Word(w) == [at |-> FALSE, text |-> w, comma |-> FALSE]
AtWord(n) == [at |-> TRUE, text |-> n, comma |-> FALSE]
AtWordComma(n) == [at |-> TRUE, text |-> n, comma |-> TRUE]

\* the error of the i-th word (0-based) of a rule, as the loop body of
\* checkRuleRefs finds it
checkWordRefs(words, i, table) ==
    LET word == words[i + 1]
        prev == words[i].text
    IN  IF word.at /\ ~word.comma
        THEN IF i > 0 /\ ~words[i].at /\ prev \in {"map", "vmap"}
             THEN IF word.text \notin DOMAIN table.Maps THEN NotFound ELSE NoErr
             ELSE IF i > 0 /\ ~words[i].at /\ prev = "offload"
             THEN IF word.text \notin DOMAIN table.Flowtables THEN NotFound ELSE NoErr
             ELSE IF word.text \notin DOMAIN table.Sets
                     /\ word.text \notin DOMAIN table.Maps
                  THEN NotFound ELSE NoErr
        ELSE IF ~word.at /\ word.text \in {"goto", "jump"} /\ i < Len(words) - 1
        THEN IF words[i + 2].at
                \/ words[i + 2].text \notin DOMAIN table.Chains
             THEN NotFound ELSE NoErr
        ELSE NoErr

RECURSIVE checkRuleRefsFrom(_, _, _)
checkRuleRefsFrom(words, i, table) ==
    IF i >= Len(words) THEN NoErr
    ELSE IF checkWordRefs(words, i, table) # NoErr
         THEN checkWordRefs(words, i, table)
         ELSE checkRuleRefsFrom(words, i + 1, table)

\* checkRuleRefs looking at the committed table of the engine in place of
\* the table of the working copy
checkRuleRefs_Committed(rule, table) ==
    IF DefaultTable \in DOMAIN Tables
    THEN checkRuleRefsFrom(rule.Rule, 0, Tables[DefaultTable])
    ELSE NotFound

\* checkRuleRefs checks for chains, sets, and maps referenced by rule in table
checkRuleRefs(rule, table) == checkRuleRefsFrom(rule.Rule, 0, table)

\* checkElementRefs checks for chains referenced by an element
checkElementRefs(element, table) ==
    IF Len(element.Value) # 1 THEN NoErr
    ELSE LET words == element.Value[1]
         IN  IF Len(words) = 2 /\ words[1] \in {"goto", "jump"}
                /\ words[2] \notin DOMAIN table.Chains
             THEN NotFound ELSE NoErr

(***************************************************************************)
(* Rules.  The four placements of the rule switch work on the chain's rule *)
(* slice; refRule is a 0-based position, or -1 for "no reference".  A      *)
(* position the slice expression cannot take is a run-time panic, which    *)
(* rulePanics reports before the placement is used.                        *)
(***************************************************************************)
\* ruleDelete removing the last rule of the chain, whatever the position
ruleDelete_Last(rules, i) == SliceTo(rules, Len(rules) - 1)

\* existingChain.Rules = append(Rules[:i], Rules[i+1:]...)
ruleDelete(rules, i) == SliceTo(rules, i) \o SliceFrom(rules, i + 1)

\* ruleAdd with the new rule put before the reference
ruleAdd_Before(rules, refRule, rule) ==
    IF refRule = -1 THEN Append(rules, rule)
    ELSE SliceTo(rules, refRule) \o <<rule>> \o SliceFrom(rules, refRule)

\* case addVerb
ruleAdd(rules, refRule, rule) ==
    IF refRule = -1 THEN Append(rules, rule)
    ELSE SliceTo(rules, refRule + 1) \o <<rule>> \o SliceFrom(rules, refRule + 1)

\* ruleInsert with the new rule put after the reference
ruleInsert_After(rules, refRule, rule) ==
    IF refRule = -1 THEN <<rule>> \o rules
    ELSE SliceTo(rules, refRule + 1) \o <<rule>> \o SliceFrom(rules, refRule + 1)

\* case insertVerb
ruleInsert(rules, refRule, rule) ==
    IF refRule = -1 THEN <<rule>> \o rules
    ELSE SliceTo(rules, refRule) \o <<rule>> \o SliceFrom(rules, refRule)

\* ruleReplace as a removal followed by an append
ruleReplace_Moves(rules, refRule, rule) ==
    Append(SliceTo(rules, refRule) \o SliceFrom(rules, refRule + 1), rule)

\* ruleReplace storing the rule without its handle
ruleReplace_DropsHandle(rules, refRule, rule) ==
    [rules EXCEPT ![refRule + 1] = [rule EXCEPT !.Handle = Nil]]

\* case replaceVerb
ruleReplace(rules, refRule, rule) == [rules EXCEPT ![refRule + 1] = rule]

\* the slice and index expressions of the rule switch that panic
rulePanics(verb, refRule) ==
    \/ verb \in {addVerb, insertVerb} /\ refRule < -1
    \/ verb = replaceVerb /\ refRule < 0

\* case *Rule
applyRule(st, verb, obj) ==
    LET tableName == getTable(obj.Table)
        terr == checkTable(st.Tables, tableName)
        table == st.Tables[tableName]
        exists == obj.Chain \in DOMAIN table.Chains
        Rules == table.Chains[obj.Chain].Rules
        refRule == IF obj.Handle # Nil THEN findRule(Rules, obj.Handle[1])
                   ELSE IF obj.Index # Nil THEN obj.Index[1]
                   ELSE -1
        rerr == IF obj.Handle # Nil
                THEN IF refRule = -1 THEN NotFound ELSE NoErr
                ELSE IF obj.Index # Nil /\ obj.Index[1] >= Len(Rules)
                THEN NotFound ELSE NoErr
        referr == checkRuleRefs(obj, table)
        newRule == [obj EXCEPT !.Handle = PtrTo(st.nextHandle)]
        setRules(r) == [st EXCEPT !.Tables[tableName].Chains[obj.Chain].Rules = r]
    IN  IF terr # NoErr THEN Fail(st, terr)
        ELSE IF ~exists THEN Fail(st, NotFound)
        ELSE IF verb = deleteVerb
        THEN IF obj.Handle = Nil THEN Fail(st, Panic)
             ELSE IF findRule(Rules, obj.Handle[1]) = -1 THEN Fail(st, NotFound)
             ELSE setRules(ruleDelete(Rules, findRule(Rules, obj.Handle[1])))
        ELSE IF rerr # NoErr THEN Fail(st, rerr)
        ELSE IF referr # NoErr THEN Fail(st, referr)
        ELSE IF verb \notin {addVerb, insertVerb, replaceVerb} THEN Fail(st, OtherErr)
        ELSE IF rulePanics(verb, refRule) THEN Fail(st, Panic)
        ELSE CASE verb = addVerb -> setRules(ruleAdd(Rules, refRule, newRule))
               [] verb = insertVerb -> setRules(ruleInsert(Rules, refRule, newRule))
               [] verb = replaceVerb -> setRules(ruleReplace(Rules, refRule, obj))

\* case *Set
applySet(st, verb, obj) ==
    LET tableName == getTable(obj.Table)
        terr == checkTable(st.Tables, tableName)
        table == st.Tables[tableName]
        exists == obj.Name \in DOMAIN table.Sets
        err == checkExists(verb, exists)
        set == [Set |-> [obj EXCEPT !.Handle = PtrTo(st.nextHandle)],
                Elements |-> << >>]
    IN  IF terr # NoErr THEN Fail(st, terr)
        ELSE IF err # NoErr THEN Fail(st, err)
        ELSE CASE verb \in {addVerb, createVerb} ->
                    IF exists THEN st
                    ELSE [st EXCEPT !.Tables[tableName].Sets = MapPut(@, obj.Name, set)]
               [] verb = flushVerb ->
                    [st EXCEPT !.Tables[tableName].Sets[obj.Name].Elements = << >>]
               [] verb \in {deleteVerb, destroyVerb} ->
                    [st EXCEPT !.Tables[tableName].Sets = MapDelete(@, obj.Name)]
               [] OTHER -> Fail(st, OtherErr)

\* case *Map
applyMap(st, verb, obj) ==
    LET tableName == getTable(obj.Table)
        terr == checkTable(st.Tables, tableName)
        table == st.Tables[tableName]
        exists == obj.Name \in DOMAIN table.Maps
        err == checkExists(verb, exists)
        mapObj == [Map |-> [obj EXCEPT !.Handle = PtrTo(st.nextHandle)],
                   Elements |-> << >>]
    IN  IF terr # NoErr THEN Fail(st, terr)
        ELSE IF err # NoErr THEN Fail(st, err)
        ELSE CASE verb = addVerb ->
                    IF exists THEN st
                    ELSE [st EXCEPT !.Tables[tableName].Maps = MapPut(@, obj.Name, mapObj)]
               [] verb = flushVerb ->
                    [st EXCEPT !.Tables[tableName].Maps[obj.Name].Elements = << >>]
               [] verb \in {deleteVerb, destroyVerb} ->
                    [st EXCEPT !.Tables[tableName].Maps = MapDelete(@, obj.Name)]
               [] OTHER -> Fail(st, OtherErr)

\* elementApply with an add that appends whether the key is there or not
elementApply_Appends(elements, verb, element) ==
    LET i == findElement(elements, element.Key)
    IN  CASE verb = addVerb -> [Elements |-> Append(elements, element), err |-> NoErr]
          [] verb = createVerb ->
                IF i # -1 THEN [Elements |-> elements, err |-> AlreadyExists]
                ELSE [Elements |-> Append(elements, element), err |-> NoErr]
          [] verb \in {deleteVerb, destroyVerb} ->
                IF i # -1
                THEN [Elements |-> SliceTo(elements, i) \o SliceFrom(elements, i + 1),
                      err |-> NoErr]
                ELSE IF verb = deleteVerb
                     THEN [Elements |-> elements, err |-> NotFound]
                     ELSE [Elements |-> elements, err |-> NoErr]
          [] OTHER -> [Elements |-> elements, err |-> OtherErr]

\* elementApply with an add that leaves an element that is there as it is
elementApply_KeepsOld(elements, verb, element) ==
    LET i == findElement(elements, element.Key)
    IN  CASE verb \in {addVerb, createVerb} ->
                IF i # -1
                THEN IF verb = createVerb
                     THEN [Elements |-> elements, err |-> AlreadyExists]
                     ELSE [Elements |-> elements, err |-> NoErr]
                ELSE [Elements |-> Append(elements, element), err |-> NoErr]
          [] verb \in {deleteVerb, destroyVerb} ->
                IF i # -1
                THEN [Elements |-> SliceTo(elements, i) \o SliceFrom(elements, i + 1),
                      err |-> NoErr]
                ELSE IF verb = deleteVerb
                     THEN [Elements |-> elements, err |-> NotFound]
                     ELSE [Elements |-> elements, err |-> NoErr]
          [] OTHER -> [Elements |-> elements, err |-> OtherErr]

\* the add/create and delete/destroy branches of an element, on the element
\* slice of its set or map: the new slice and the error
elementApply(elements, verb, element) ==
    LET i == findElement(elements, element.Key)
    IN  CASE verb \in {addVerb, createVerb} ->
                IF i # -1
                THEN IF verb = createVerb
                     THEN [Elements |-> elements, err |-> AlreadyExists]
                     ELSE [Elements |-> [elements EXCEPT ![i + 1] = element],
                           err |-> NoErr]
                ELSE [Elements |-> Append(elements, element), err |-> NoErr]
          [] verb \in {deleteVerb, destroyVerb} ->
                IF i # -1
                THEN [Elements |-> SliceTo(elements, i) \o SliceFrom(elements, i + 1),
                      err |-> NoErr]
                ELSE IF verb = deleteVerb
                     THEN [Elements |-> elements, err |-> NotFound]
                     ELSE [Elements |-> elements, err |-> NoErr]
          [] OTHER -> [Elements |-> elements, err |-> OtherErr]

\* case *Element
applyElement(st, verb, obj) ==
    LET tableName == getTable(obj.Table)
        terr == checkTable(st.Tables, tableName)
        table == st.Tables[tableName]
        inSet == elementApply(table.Sets[obj.Set].Elements, verb, obj)
        inMap == elementApply(table.Maps[obj.Map].Elements, verb, obj)
    IN  IF terr # NoErr THEN Fail(st, terr)
        ELSE IF obj.Set # ""
        THEN IF obj.Set \notin DOMAIN table.Sets THEN Fail(st, NotFound)
             ELSE IF inSet.err # NoErr THEN Fail(st, inSet.err)
             ELSE [st EXCEPT !.Tables[tableName].Sets[obj.Set].Elements = inSet.Elements]
        ELSE IF obj.Map \notin DOMAIN table.Maps THEN Fail(st, NotFound)
             ELSE IF checkElementRefs(obj, table) # NoErr
             THEN Fail(st, checkElementRefs(obj, table))
             ELSE IF inMap.err # NoErr THEN Fail(st, inMap.err)
             ELSE [st EXCEPT !.Tables[tableName].Maps[obj.Map].Elements = inMap.Elements]

(***************************************************************************)
(* Counters.  heap[a] is the FakeCounter at address a; table.Counters maps *)
(* a name to an address.  A caller's Counter object is obj with its Handle *)
(* field kept in st.objs[obj.ptr].                                         *)
(***************************************************************************)
\* the address of a newly allocated FakeCounter
NewAddr(h) == CHOOSE a \in 1..(Cardinality(DOMAIN h) + 1) :
                 /\ a \notin DOMAIN h
                 /\ \A b \in 1..(a - 1) : b \in DOMAIN h

\* FakeCounter{*obj}: the fields of the caller's object
FakeCounter(obj, handle) ==
    [Counter |-> [Name |-> obj.Name, Table |-> obj.Table, Handle |-> handle,
                  Packets |-> obj.Packets, Bytes |-> obj.Bytes,
                  Comment |-> obj.Comment]]

applyCounter_DeletesNamed(st, verb, obj) ==
    LET tableName == getTable(obj.Table)
        terr == checkTable(st.Tables, tableName)
        table == st.Tables[tableName]
        exists == obj.Name \in DOMAIN table.Counters
        err == checkExists(verb, exists)
        addr == NewAddr(st.heap)
    IN  IF terr # NoErr THEN Fail(st, terr)
        ELSE CASE verb \in {addVerb, createVerb} ->
                    IF err # NoErr THEN Fail(st, err)
                    ELSE IF exists THEN st
                    ELSE [st EXCEPT
                            !.objs[obj.ptr] = PtrTo(st.nextHandle),
                            !.heap = MapPut(@, addr,
                                        FakeCounter(obj, PtrTo(st.nextHandle))),
                            !.Tables[tableName].Counters = MapPut(@, obj.Name, addr)]
               [] verb = resetVerb ->
                    IF err # NoErr THEN Fail(st, err)
                    ELSE [st EXCEPT
                            !.heap[table.Counters[obj.Name]].Counter.Packets = PtrTo(0),
                            !.heap[table.Counters[obj.Name]].Counter.Bytes = PtrTo(0)]
               [] verb = deleteVerb ->
                    IF err # NoErr THEN Fail(st, err)
                    ELSE [st EXCEPT !.Tables[tableName].Counters =
                                    MapDelete(@, obj.Name)]
               [] OTHER -> Fail(st, OtherErr)

applyCounter_ResetsAll(st, verb, obj) ==
    LET tableName == getTable(obj.Table)
        terr == checkTable(st.Tables, tableName)
        table == st.Tables[tableName]
        exists == obj.Name \in DOMAIN table.Counters
        err == checkExists(verb, exists)
        objHandle == st.objs[obj.ptr]
        addr == NewAddr(st.heap)
        found == {n \in DOMAIN table.Counters :
                     st.heap[table.Counters[n]].Counter.Handle = objHandle}
    IN  IF terr # NoErr THEN Fail(st, terr)
        ELSE CASE verb \in {addVerb, createVerb} ->
                    IF err # NoErr THEN Fail(st, err)
                    ELSE IF exists THEN st
                    ELSE [st EXCEPT
                            !.objs[obj.ptr] = PtrTo(st.nextHandle),
                            !.heap = MapPut(@, addr,
                                        FakeCounter(obj, PtrTo(st.nextHandle))),
                            !.Tables[tableName].Counters = MapPut(@, obj.Name, addr)]
               [] verb = resetVerb ->
                    IF err # NoErr THEN Fail(st, err)
                    ELSE [st EXCEPT !.heap =
                            [a \in DOMAIN st.heap |->
                                IF a \in {table.Counters[n] : n \in DOMAIN table.Counters}
                                THEN [st.heap[a] EXCEPT !.Counter.Packets = PtrTo(0),
                                                        !.Counter.Bytes = PtrTo(0)]
                                ELSE st.heap[a]]]
               [] verb = deleteVerb ->
                    IF objHandle # Nil
                    THEN IF found = {} THEN Fail(st, NotFound)
                         ELSE [st EXCEPT !.Tables[tableName].Counters =
                                    MapDelete(@, CHOOSE n \in found : TRUE)]
                    ELSE IF err # NoErr THEN Fail(st, err)
                    ELSE [st EXCEPT !.Tables[tableName].Counters =
                                    MapDelete(@, obj.Name)]
               [] OTHER -> Fail(st, OtherErr)

\* case *Counter
applyCounter(st, verb, obj) ==
    LET tableName == getTable(obj.Table)
        terr == checkTable(st.Tables, tableName)
        table == st.Tables[tableName]
        exists == obj.Name \in DOMAIN table.Counters
        err == checkExists(verb, exists)
        objHandle == st.objs[obj.ptr]
        addr == NewAddr(st.heap)
        found == {n \in DOMAIN table.Counters :
                     st.heap[table.Counters[n]].Counter.Handle = objHandle}
    IN  IF terr # NoErr THEN Fail(st, terr)
        ELSE CASE verb \in {addVerb, createVerb} ->
                    IF err # NoErr THEN Fail(st, err)
                    ELSE IF exists THEN st
                    ELSE [st EXCEPT
                            !.objs[obj.ptr] = PtrTo(st.nextHandle),
                            !.heap = MapPut(@, addr,
                                        FakeCounter(obj, PtrTo(st.nextHandle))),
                            !.Tables[tableName].Counters = MapPut(@, obj.Name, addr)]
               [] verb = resetVerb ->
                    IF err # NoErr THEN Fail(st, err)
                    ELSE [st EXCEPT
                            !.heap[table.Counters[obj.Name]].Counter.Packets = PtrTo(0),
                            !.heap[table.Counters[obj.Name]].Counter.Bytes = PtrTo(0)]
               [] verb = deleteVerb ->
                    IF objHandle # Nil
                    THEN IF found = {} THEN Fail(st, NotFound)
                         ELSE [st EXCEPT !.Tables[tableName].Counters =
                                    MapDelete(@, CHOOSE n \in found : TRUE)]
                    ELSE IF err # NoErr THEN Fail(st, err)
                    ELSE [st EXCEPT !.Tables[tableName].Counters =
                                    MapDelete(@, obj.Name)]
               [] OTHER -> Fail(st, OtherErr)

(***************************************************************************)
(* Fake.run.  fake is the engine as the pass finds it (Tables, heap,       *)
(* nextHandle); tx is the transaction (operations, err, and objs, the      *)
(* Handle fields of the caller's Counter objects).  The result is the      *)
(* working state at the return: Tables is updatedTables, while heap,       *)
(* nextHandle and objs are what the pass has written in place.             *)
(***************************************************************************)
\* the dispatch of the type switch
dispatch(st1, op) ==
    CASE op.obj.kind = "table" -> applyTable(st1, op.verb, op.obj)
      [] op.obj.kind = "flowtable" -> applyFlowtable(st1, op.verb, op.obj)
      [] op.obj.kind = "chain" -> applyChain(st1, op.verb, op.obj)
      [] op.obj.kind = "rule" -> applyRule(st1, op.verb, op.obj)
      [] op.obj.kind = "set" -> applySet(st1, op.verb, op.obj)
      [] op.obj.kind = "map" -> applyMap(st1, op.verb, op.obj)
      [] op.obj.kind = "element" -> applyElement(st1, op.verb, op.obj)
      [] op.obj.kind = "counter" -> applyCounter(st1, op.verb, op.obj)
      [] OTHER -> Fail(st1, OtherErr)

\* applyOp with no handle taken for an insert
applyOp_NoInsertStep(st, op) ==
    dispatch(IF op.verb \in {addVerb, createVerb}
             THEN [st EXCEPT !.nextHandle = @ + 1] ELSE st, op)

\* the body of the loop over tx.operations
applyOp(st, op) ==
    LET st1 == IF op.verb \in {addVerb, createVerb, insertVerb}
               THEN [st EXCEPT !.nextHandle = @ + 1]
               ELSE st
    IN  dispatch(st1, op)

RECURSIVE runOps_LastFirst(_, _)
runOps_LastFirst(st, ops) ==
    IF ops = << >> THEN st
    ELSE LET st1 == applyOp(st, ops[Len(ops)])
         IN  IF st1.err # NoErr THEN st1
             ELSE runOps_LastFirst(st1, SubSeq(ops, 1, Len(ops) - 1))

\* the loop over tx.operations, which returns at the first error
RECURSIVE runOps(_, _)
runOps(st, ops) ==
    IF ops = << >> THEN st
    ELSE LET st1 == applyOp(st, Head(ops))
         IN  IF st1.err # NoErr THEN st1 ELSE runOps(st1, Tail(ops))

\* the clone step: every table of fake.Tables is copied
cloneTables(tables) == [n \in DOMAIN tables |-> copy(tables[n])]

run(fake, tx) ==
    LET st0 == [Tables |-> fake.Tables, heap |-> fake.heap,
                nextHandle |-> fake.nextHandle, objs |-> tx.objs, err |-> tx.err]
    IN  IF tx.err # NoErr THEN st0
        ELSE runOps([st0 EXCEPT !.Tables = cloneTables(fake.Tables)], tx.operations)

(***************************************************************************)
(* The objects and transactions that callers submit.  An object that names *)
(* no table ("") is resolved to the engine's table.                        *)
(***************************************************************************)
TableObj(name) ==
    [kind |-> "table", Name |-> name, Handle |-> Nil, Comment |-> Nil]
ChainObj(name) ==
    [kind |-> "chain", Table |-> "", Name |-> name, Handle |-> Nil, Comment |-> Nil]
RuleObj(chain, words, index, handle) ==
    [kind |-> "rule", Table |-> "", Chain |-> chain, Rule |-> words,
     Index |-> index, Handle |-> handle, Comment |-> Nil]
CounterObj(name, ptr, packets) ==
    [kind |-> "counter", Table |-> "", Name |-> name, ptr |-> ptr,
     Packets |-> packets, Bytes |-> packets, Comment |-> Nil]

Op(verb, obj) == [verb |-> verb, obj |-> obj]

\* the Handle fields of the caller's Counter objects when a transaction is
\* built: they are nil
FreshObjs == [p \in {1, 2} |-> Nil]

\* a transaction as the builder leaves it without a validation error
Tx(ops) == [operations |-> ops, err |-> NoErr, objs |-> FreshObjs]

\* a transaction that an invalid object has poisoned
PoisonedTx == [operations |-> << >>, err |-> "Validation", objs |-> FreshObjs]

\* the transactions of one operation and of two operations over a set of
\* operations, and a poisoned one
TxsOver(ops) ==
    {Tx(<<a>>) : a \in ops} \cup {Tx(<<a, b>>) : a \in ops, b \in ops}
        \cup {PoisonedTx}

(***************************************************************************)
(* The engine.                                                             *)
(***************************************************************************)
\* the engine as a record, for run
Fake == [Tables |-> Tables, heap |-> heap, nextHandle |-> nextHandle]

\* the addresses of the FakeCounters a forest holds
CounterAddrs(tables) ==
    UNION {{tables[t].Counters[n] : n \in DOMAIN tables[t].Counters} : t \in DOMAIN tables}

\* the FakeCounters that remain reachable from a forest
Reachable(h, tables) == [a \in (DOMAIN h) \cap CounterAddrs(tables) |-> h[a]]

\* the number of operations of a transaction that take a handle
RECURSIVE NumHandles(_)
NumHandles(ops) ==
    IF ops = << >> THEN 0
    ELSE (IF Head(ops).verb \in {addVerb, createVerb, insertVerb} THEN 1 ELSE 0)
         + NumHandles(Tail(ops))

\* the calling goroutines
Threads == {1, 2}

\* a goroutine that is in no call
Idle == [pc |-> "idle", call |-> "", tx |-> Tx(<< >>), k |-> 0,
         Tables |-> EmptyMap, objs |-> FreshObjs, err |-> NoErr]

\* what a read of a forest and its counters returns: Dump renders all of
\* it, ListCounters returns the counters of the engine's table
Snapshot(tables, h) == <<tables, Reachable(h, tables)>>

\* NewFake
Init ==
    /\ Tables = EmptyMap
    /\ heap = EmptyMap
    /\ nextHandle = 0
    /\ LastTransaction = Nil
    /\ ret = [call |-> "NewFake", err |-> NoErr]
    /\ mutex = [writer |-> 0, readers |-> {}]
    /\ thr = [t \in Threads |-> Idle]
    /\ obs = [call |-> "Dump", result |-> Snapshot(EmptyMap, EmptyMap)]
    /\ published = {Snapshot(EmptyMap, EmptyMap)}

Run_ForgetsFailed(tx) ==
    LET r == run(Fake, tx)
        updatedTables == IF r.err = NoErr THEN r.Tables ELSE Tables
    IN  /\ nextHandle + NumHandles(tx.operations) <= MaxHandle
        /\ LastTransaction' = IF r.err = NoErr THEN <<[tx EXCEPT !.objs = r.objs]>>
                              ELSE LastTransaction
        /\ Tables' = updatedTables
        /\ heap' = Reachable(r.heap, updatedTables)
        /\ nextHandle' = r.nextHandle
        /\ ret' = [call |-> "Run", err |-> r.err]
        /\ UNCHANGED concVars

\* Fake.Run
Run(tx) ==
    LET r == run(Fake, tx)
        updatedTables == IF r.err = NoErr THEN r.Tables ELSE Tables
    IN  /\ nextHandle + NumHandles(tx.operations) <= MaxHandle
        /\ LastTransaction' = <<[tx EXCEPT !.objs = r.objs]>>
        /\ Tables' = updatedTables
        /\ heap' = Reachable(r.heap, updatedTables)
        /\ nextHandle' = r.nextHandle
        /\ ret' = [call |-> "Run", err |-> r.err]
        /\ UNCHANGED concVars

\* Fake.Check
Check(tx) ==
    LET r == run(Fake, tx)
    IN  /\ nextHandle + NumHandles(tx.operations) <= MaxHandle
        /\ heap' = Reachable(r.heap, Tables)
        /\ nextHandle' = r.nextHandle
        /\ ret' = [call |-> "Check", err |-> r.err]
        /\ UNCHANGED <<Tables, LastTransaction>>
        /\ UNCHANGED concVars

\* the operations of the specification Spec: a table, a chain with rules
\* and a counter
CoreOps ==
    {Op(addVerb, TableObj("")),
     Op(flushVerb, TableObj("")),
     Op(addVerb, ChainObj("c1")),
     Op(deleteVerb, ChainObj("c1")),
     Op(addVerb, CounterObj("k1", 2, PtrTo(7))),
     Op(resetVerb, CounterObj("k1", 1, Nil)),
     Op(deleteVerb, CounterObj("k1", 1, Nil))}

CoreTxs == TxsOver(CoreOps)

Next == \E tx \in CoreTxs : Run(tx) \/ Check(tx)

Spec == Init /\ [][Next]_vars

(***************************************************************************)
(* The specification SpecRules: one chain and the operations on its rules. *)
(* A caller takes the handles it names from ListRules, or names a handle   *)
(* that no rule of the chain has.                                          *)
(***************************************************************************)
\* the rules of chain c1 of the engine's table, << >> when there are none
CommittedRules ==
    IF DefaultTable \in DOMAIN Tables /\ "c1" \in DOMAIN Tables[DefaultTable].Chains
    THEN Tables[DefaultTable].Chains["c1"].Rules
    ELSE << >>

\* the handles a caller names
NamedHandles == {CommittedRules[i].Handle : i \in 1..Len(CommittedRules)}
                    \cup {PtrTo(nextHandle)}

\* the positions a caller names
NamedIndexes == {PtrTo(i) : i \in 0..2}

RuleOps ==
    {Op(v, RuleObj("c1", <<Word("a")>>, Nil, Nil)) : v \in {addVerb, insertVerb}}
    \cup {Op(v, RuleObj("c1", <<Word("a")>>, i, Nil)) :
            v \in {addVerb, insertVerb}, i \in NamedIndexes}
    \cup {Op(v, RuleObj("c1", <<Word("a")>>, Nil, h)) :
            v \in {addVerb, insertVerb}, h \in NamedHandles}
    \cup {Op(replaceVerb, RuleObj("c1", <<Word("b")>>, Nil, h)) : h \in NamedHandles}
    \cup {Op(deleteVerb, RuleObj("c1", << >>, Nil, h)) : h \in NamedHandles}

ChainOps ==
    {Op(addVerb, TableObj("")), Op(flushVerb, TableObj("")),
     Op(deleteVerb, TableObj("")),
     Op(addVerb, ChainObj("c1")), Op(flushVerb, ChainObj("c1")),
     Op(deleteVerb, ChainObj("c1")),
     Op(addVerb, ChainObj("c2")),
     Op(addVerb, RuleObj("c2", <<Word("a")>>, Nil, Nil))}

\* a rule operation of a transaction that follows another rule operation
FirstOps ==
    {Op(addVerb, RuleObj("c1", <<Word("a")>>, Nil, Nil)),
     Op(insertVerb, RuleObj("c1", <<Word("a")>>, Nil, Nil))}
    \cup {Op(deleteVerb, RuleObj("c1", << >>, Nil, h)) : h \in NamedHandles}

SecondOps ==
    {Op(v, RuleObj("c1", <<Word("a")>>, i, Nil)) :
            v \in {addVerb, insertVerb}, i \in {PtrTo(0), PtrTo(1)}}

RuleTxs ==
    {Tx(<<a>>) : a \in RuleOps \cup ChainOps}
    \cup {Tx(<<Op(addVerb, TableObj("")), Op(addVerb, ChainObj("c1"))>>)}
    \cup {Tx(<<a, b>>) : a \in FirstOps, b \in SecondOps}

NextRules == \E tx \in RuleTxs : Run(tx) \/ Check(tx)

SpecRules == Init /\ [][NextRules]_vars

(***************************************************************************)
(* Properties.                                                             *)
(***************************************************************************)
\* the committed state that Dump, List, ListRules, ListElements and
\* ListCounters read: the forest and the counters it holds
Committed == <<Tables, heap>>

\* C1: a Run that returns an error leaves the committed state - tables,
\* chains, rules, sets, maps, elements, flowtables and the counters with
\* their packet and byte values - exactly as it was before the call.
C1_RunIsAtomic ==
    [][(ret'.call = "Run" /\ ret'.err # NoErr) => Committed' = Committed]_vars

\* C2: a Check, whatever it returns, leaves the committed state exactly as
\* it was before the call.
C2_CheckIsDryRun ==
    [][ret'.call = "Check" => Committed' = Committed]_vars

\* the entities of a forest that carry a handle, each with its handle; a
\* rule is identified by its chain and its handle
Entities(tables, h) ==
    UNION {
        {<<"table", t, "", tables[t].Table.Handle>>}
        \cup {<<"flowtable", t, n, tables[t].Flowtables[n].Flowtable.Handle>> :
                n \in DOMAIN tables[t].Flowtables}
        \cup {<<"chain", t, n, tables[t].Chains[n].Chain.Handle>> :
                n \in DOMAIN tables[t].Chains}
        \cup {<<"set", t, n, tables[t].Sets[n].Set.Handle>> :
                n \in DOMAIN tables[t].Sets}
        \cup {<<"map", t, n, tables[t].Maps[n].Map.Handle>> :
                n \in DOMAIN tables[t].Maps}
        \cup {<<"counter", t, n, h[tables[t].Counters[n]].Counter.Handle>> :
                n \in DOMAIN tables[t].Counters}
        \cup UNION {{<<"rule", t, n, tables[t].Chains[n].Rules[i].Handle>> :
                        i \in 1..Len(tables[t].Chains[n].Rules)} :
                    n \in DOMAIN tables[t].Chains}
        : t \in DOMAIN tables}

\* the entities that a step has given a handle
Assigned(tables, h, tables2, h2) == Entities(tables2, h2) \ Entities(tables, h)

\* C5: the handles given to entities are strictly increasing in the order
\* they are given, and no handle value is given to two entities: an entity
\* that a Run brings into the committed state has a handle above every
\* handle given before the call, and two such entities have two handles.
C5_HandlesIncrease ==
    [][ret'.call = "Run" =>
        LET new == Assigned(Tables, heap, Tables', heap')
        IN  /\ \A e \in new : e[4] # Nil /\ e[4][1] > nextHandle
            /\ \A e1, e2 \in new : e1 # e2 => e1[4] # e2[4]]_vars

(***************************************************************************)
(* The apply pass of the last Run, operation by operation.  A Run leaves   *)
(* its transaction in LastTransaction; the objects of the transaction were *)
(* fresh when the Run began.                                               *)
(***************************************************************************)
\* the transaction as it was passed to the Run that a step takes
RunTx == [LastTransaction'[1] EXCEPT !.objs = FreshObjs]

\* the working state of run(fake, tx) before its k-th operation
Before(fake, tx, k) ==
    LET st0 == [Tables |-> cloneTables(fake.Tables), heap |-> fake.heap,
                nextHandle |-> fake.nextHandle, objs |-> tx.objs, err |-> tx.err]
    IN  IF tx.err # NoErr THEN st0
        ELSE runOps(st0, SubSeq(tx.operations, 1, k - 1))

\* the k-th operation is processed: no earlier one has failed
Reached(fake, tx, k) == Before(fake, tx, k).err = NoErr

\* the working state after the k-th operation
After(fake, tx, k) == applyOp(Before(fake, tx, k), tx.operations[k])

AddLike == {addVerb, createVerb, insertVerb}

\* the number of add, create and insert operations that are processed
RECURSIVE HandlesTaken(_, _, _)
HandlesTaken(fake, tx, k) ==
    IF k = 0 THEN 0
    ELSE HandlesTaken(fake, tx, k - 1)
         + (IF Reached(fake, tx, k) /\ tx.operations[k].verb \in AddLike
            THEN 1 ELSE 0)

\* the kind, table and name of the object an operation is about
Target(op) ==
    CASE op.obj.kind = "table" -> <<"table", getTable(op.obj.Name), "">>
      [] op.obj.kind = "rule" -> <<"rule", getTable(op.obj.Table), op.obj.Chain>>
      [] OTHER -> <<op.obj.kind, getTable(op.obj.Table), op.obj.Name>>

AllRules ==
    UNION {UNION {{<<t, n, i>> : i \in 1..Len(Tables[t].Chains[n].Rules)} :
                    n \in DOMAIN Tables[t].Chains} : t \in DOMAIN Tables}

RuleAt(p) == Tables[p[1]].Chains[p[2]].Rules[p[3]]

\* C7: in every committed state every stored rule has a handle and no two
\* stored rules of the engine have the same handle.
C7_RuleHandlesUnique ==
    /\ \A p \in AllRules : RuleAt(p).Handle # Nil
    /\ \A p, q \in AllRules : p # q => RuleAt(p).Handle # RuleAt(q).Handle

\* C7 witness: two chains hold rules, and one of the rules was replaced
C7_Witness ==
    \E p, q \in AllRules :
        p[2] # q[2] /\ RuleAt(p).Rule = <<Word("b")>> /\ RuleAt(q).Rule = <<Word("a")>>

\* the rules of the chain a rule operation names, in a working state
ChainRules(st, op) ==
    st.Tables[getTable(op.obj.Table)].Chains[op.obj.Chain].Rules

\* the chain a rule operation names exists in a working state
ChainExists(st, op) ==
    /\ getTable(op.obj.Table) \in DOMAIN st.Tables
    /\ op.obj.Chain \in DOMAIN st.Tables[getTable(op.obj.Table)].Chains

\* the 0-based positions of a rule sequence that an operation's Index or
\* Handle refers to
RefPositions(R, obj) ==
    {i \in 0..(Len(R) - 1) :
        \/ obj.Handle = Nil /\ obj.Index = PtrTo(i)
        \/ obj.Handle # Nil /\ obj.Index = Nil /\ R[i + 1].Handle = obj.Handle}

\* R2 is R with one new rule, made from obj with a fresh handle h, at the
\* 0-based position pos
PlacedAt(R, R2, pos, obj, h) ==
    /\ Len(R2) = Len(R) + 1
    /\ \A j \in 1..pos : R2[j] = R[j]
    /\ \A j \in (pos + 1)..Len(R) : R2[j + 1] = R[j]
    /\ R2[pos + 1].Rule = obj.Rule
    /\ R2[pos + 1].Handle = PtrTo(h)
    /\ \A j \in 1..Len(R) : R[j].Handle # PtrTo(h)

\* a rule operation of the last Run that is processed, with the rules of
\* its chain before (R) and after (R2) it
RuleStep(k, verb) ==
    /\ Reached(Fake, RunTx, k)
    /\ RunTx.operations[k].verb = verb
    /\ RunTx.operations[k].obj.kind = "rule"
    /\ ChainExists(Before(Fake, RunTx, k), RunTx.operations[k])

\* C8: Add with Index=i or with the handle of ri puts the new rule right
\* after ri, Add with neither appends it; the new rule has a fresh handle
\* and the rules that were there keep their handles and their order.
C8_AddPositioning ==
    [][ret'.call = "Run" =>
        \A k \in 1..Len(RunTx.operations) :
            RuleStep(k, addVerb) =>
                LET op == RunTx.operations[k]
                    a == After(Fake, RunTx, k)
                    R == ChainRules(Before(Fake, RunTx, k), op)
                IN  /\ \A i \in RefPositions(R, op.obj) :
                          /\ a.err = NoErr
                          /\ PlacedAt(R, ChainRules(a, op), i + 1, op.obj, a.nextHandle)
                    /\ (op.obj.Index = Nil /\ op.obj.Handle = Nil) =>
                          /\ a.err = NoErr
                          /\ PlacedAt(R, ChainRules(a, op), Len(R), op.obj,
                                      a.nextHandle)]_vars

\* C8 witness: a Run of [Insert(rule), Add(rule, Index=0)] on a chain that
\* held a rule has put the added rule right after the one just inserted
C8_Witness ==
    /\ ret.call = "Run" /\ ret.err = NoErr
    /\ Len(LastTransaction[1].operations) = 2
    /\ LastTransaction[1].operations[1].verb = insertVerb
    /\ LastTransaction[1].operations[2].verb = addVerb
    /\ LastTransaction[1].operations[2].obj.Index = PtrTo(0)
    /\ Len(CommittedRules) = 3
    /\ CommittedRules[1].Handle = PtrTo(nextHandle - 1)
    /\ CommittedRules[2].Handle = PtrTo(nextHandle)

\* C9: Insert with Index=i or with the handle of ri puts the new rule right
\* before ri, Insert with neither puts it first; the new rule has a fresh
\* handle and the rules that were there keep their handles and their order.
C9_InsertPositioning ==
    [][ret'.call = "Run" =>
        \A k \in 1..Len(RunTx.operations) :
            RuleStep(k, insertVerb) =>
                LET op == RunTx.operations[k]
                    a == After(Fake, RunTx, k)
                    R == ChainRules(Before(Fake, RunTx, k), op)
                IN  /\ \A i \in RefPositions(R, op.obj) :
                          /\ a.err = NoErr
                          /\ PlacedAt(R, ChainRules(a, op), i, op.obj, a.nextHandle)
                    /\ (op.obj.Index = Nil /\ op.obj.Handle = Nil) =>
                          /\ a.err = NoErr
                          /\ PlacedAt(R, ChainRules(a, op), 0, op.obj,
                                      a.nextHandle)]_vars

\* C9 witness: a Run of [Add(rule), Insert(rule, Index=1)] on a chain that
\* held a rule has put the inserted rule right before the one just added
C9_Witness ==
    /\ ret.call = "Run" /\ ret.err = NoErr
    /\ Len(LastTransaction[1].operations) = 2
    /\ LastTransaction[1].operations[1].verb = addVerb
    /\ LastTransaction[1].operations[2].verb = insertVerb
    /\ LastTransaction[1].operations[2].obj.Index = PtrTo(1)
    /\ Len(CommittedRules) = 3
    /\ CommittedRules[2].Handle = PtrTo(nextHandle)
    /\ CommittedRules[3].Handle = PtrTo(nextHandle - 1)

\* C10: Replace with the handle h of a rule of the chain changes the content
\* of that rule only: the rule stays where it is and keeps handle h, the
\* chain keeps its length, and every other rule keeps its place and handle.
C10_ReplaceInPlace ==
    [][ret'.call = "Run" =>
        \A k \in 1..Len(RunTx.operations) :
            RuleStep(k, replaceVerb) =>
                LET op == RunTx.operations[k]
                    a == After(Fake, RunTx, k)
                    R == ChainRules(Before(Fake, RunTx, k), op)
                IN  \A i \in RefPositions(R, op.obj) :
                        /\ a.err = NoErr
                        /\ Len(ChainRules(a, op)) = Len(R)
                        /\ ChainRules(a, op)[i + 1].Handle = op.obj.Handle
                        /\ ChainRules(a, op)[i + 1].Rule = op.obj.Rule
                        /\ \A j \in 1..Len(R) :
                              j # i + 1 => ChainRules(a, op)[j] = R[j]]_vars

\* C10 witness: a Run of a Replace has succeeded on a chain of two rules and
\* the first rule has the new content while the second has the old
C10_Witness ==
    /\ ret.call = "Run" /\ ret.err = NoErr
    /\ LastTransaction[1].operations[1].verb = replaceVerb
    /\ Len(CommittedRules) = 2
    /\ CommittedRules[1].Rule = <<Word("b")>>
    /\ CommittedRules[1].Handle = LastTransaction[1].operations[1].obj.Handle
    /\ CommittedRules[2].Rule = <<Word("a")>>

\* the handles of the rules of a chain in a working state, {} when the chain
\* is not there
RuleHandles(st, t, n) ==
    IF t \in DOMAIN st.Tables /\ n \in DOMAIN st.Tables[t].Chains
    THEN {st.Tables[t].Chains[n].Rules[i].Handle :
            i \in 1..Len(st.Tables[t].Chains[n].Rules)}
    ELSE {}

\* the chains of a working state
ChainsOf(st) ==
    UNION {{<<t, n>> : n \in DOMAIN st.Tables[t].Chains} : t \in DOMAIN st.Tables}

\* C11: Delete of a rule with the handle h of a rule of the chain removes
\* exactly that rule and leaves the other rules in their order with their
\* handles; a delete with a handle that no rule of the chain has fails with
\* NotFound; and a deleted handle never refers to another rule: h is at most
\* the handle counter, and every handle that an operation brings into a
\* chain is above the handle counter as the operation found it.
C11_DeleteRuleByHandle ==
    [][ret'.call = "Run" =>
        \A k \in 1..Len(RunTx.operations) :
            /\ RuleStep(k, deleteVerb) =>
                  LET op == RunTx.operations[k]
                      b == Before(Fake, RunTx, k)
                      a == After(Fake, RunTx, k)
                      R == ChainRules(b, op)
                      at == {i \in 1..Len(R) : R[i].Handle = op.obj.Handle}
                  IN  /\ at = {} => a.err = NotFound
                      /\ \A i \in at :
                            /\ a.err = NoErr
                            /\ ChainRules(a, op)
                                  = SubSeq(R, 1, i - 1) \o SubSeq(R, i + 1, Len(R))
                            /\ \A j \in 1..Len(ChainRules(a, op)) :
                                  ChainRules(a, op)[j].Handle # op.obj.Handle
                            /\ op.obj.Handle[1] <= b.nextHandle
            /\ Reached(Fake, RunTx, k) =>
                  LET b == Before(Fake, RunTx, k)
                      a == After(Fake, RunTx, k)
                  IN  \A c \in ChainsOf(a) :
                        \A h \in RuleHandles(a, c[1], c[2])
                                    \ RuleHandles(b, c[1], c[2]) :
                            h # Nil /\ h[1] > b.nextHandle]_vars

\* C11 witness: a Run of a Delete by handle has succeeded on a chain that
\* keeps two rules, and the deleted handle lies between their handles, so
\* the rule removed was neither the oldest nor the newest of the chain
C11_Witness ==
    /\ ret.call = "Run" /\ ret.err = NoErr
    /\ Len(LastTransaction[1].operations) = 1
    /\ LastTransaction[1].operations[1].verb = deleteVerb
    /\ LastTransaction[1].operations[1].obj.kind = "rule"
    /\ Len(CommittedRules) = 2
    /\ \E i, j \in 1..2 :
          /\ CommittedRules[i].Handle[1]
                < LastTransaction[1].operations[1].obj.Handle[1]
          /\ LastTransaction[1].operations[1].obj.Handle[1]
                < CommittedRules[j].Handle[1]

(***************************************************************************)
(* The specification SpecIndex: rule operations whose Index is any small   *)
(* integer, below zero included, and whose Handle may be one that no rule  *)
(* has.                                                                    *)
(***************************************************************************)
\* the positions a caller names, valid or not
AnyIndexes == {PtrTo(i) : i \in -2..1}

\* the handles a caller names: the newest one and one never given
AnyHandles == {PtrTo(nextHandle), PtrTo(nextHandle + 1)}

IndexOps ==
    {Op(addVerb, ChainObj("c1")),
     Op(addVerb, RuleObj("c1", <<Word("a")>>, Nil, Nil))}
    \cup {Op(v, RuleObj("c1", <<Word("a")>>, i, Nil)) :
            v \in {addVerb, insertVerb}, i \in AnyIndexes}
    \cup {Op(v, RuleObj("c1", <<Word("b")>>, Nil, h)) :
            v \in {addVerb, insertVerb, replaceVerb}, h \in AnyHandles}

IndexTxs ==
    {Tx(<<a>>) : a \in IndexOps}
    \cup {Tx(<<Op(addVerb, TableObj("")), Op(addVerb, ChainObj("c1"))>>)}

NextIndex == \E tx \in IndexTxs : Run(tx) \/ Check(tx)

SpecIndex == Init /\ [][NextIndex]_vars

\* the reference of a rule operation resolves to no rule of the sequence R:
\* its Handle is the handle of no rule, or its Index is no position of R
Unresolvable(R, obj) ==
    \/ obj.Handle # Nil /\ \A i \in 1..Len(R) : R[i].Handle # obj.Handle
    \/ obj.Handle = Nil /\ obj.Index # Nil
            /\ obj.Index[1] \notin 0..(Len(R) - 1)

\* C12: an add, insert or replace of a rule whose Handle matches no rule of
\* the chain, or whose Index is not a position 0..N-1 of the chain, fails
\* with NotFound: it does not panic, it does not place the rule, and the
\* committed state is unchanged.
C12_UnresolvableReference ==
    [][ret'.call = "Run" =>
        \A k \in 1..Len(RunTx.operations) :
            \A verb \in {addVerb, insertVerb, replaceVerb} :
                (/\ RuleStep(k, verb)
                 /\ Unresolvable(ChainRules(Before(Fake, RunTx, k),
                                            RunTx.operations[k]),
                                 RunTx.operations[k].obj)) =>
                    /\ After(Fake, RunTx, k).err = NotFound
                    /\ After(Fake, RunTx, k).Tables = Before(Fake, RunTx, k).Tables
                    /\ Committed' = Committed]_vars

(***************************************************************************)
(* The specification SpecCreate: create operations on every kind of        *)
(* object.                                                                 *)
(***************************************************************************)
FlowtableObj(name) ==
    [kind |-> "flowtable", Table |-> "", Name |-> name, Handle |-> Nil]
SetObj(name) ==
    [kind |-> "set", Table |-> "", Name |-> name, Handle |-> Nil, Comment |-> Nil]
MapObj(name) ==
    [kind |-> "map", Table |-> "", Name |-> name, Handle |-> Nil, Comment |-> Nil]
\* an element of a set (map = "") or of a map (set = ""); a value is the
\* sequence of the words of its string
ElementObj(set, map, key, value, comment) ==
    [kind |-> "element", Table |-> "", Set |-> set, Map |-> map, Key |-> key,
     Value |-> value, Comment |-> comment]

\* one object of every kind, and the map that the map element is in
KindObjs ==
    {TableObj(""), FlowtableObj("f1"), ChainObj("c1"), SetObj("s1"), MapObj("m1"),
     CounterObj("k1", 1, PtrTo(7)),
     ElementObj("s1", "", <<"x">>, << >>, Nil),
     ElementObj("", "m1", <<"x">>, <<<<"y">>>>, Nil)}

CreateTxs ==
    {Tx(<<Op(createVerb, o)>>) : o \in KindObjs}
    \cup {Tx(<<Op(addVerb, MapObj("m1"))>>)}

NextCreate == \E tx \in CreateTxs : Run(tx) \/ Check(tx)

SpecCreate == Init /\ [][NextCreate]_vars

\* the table of an object is in a working state and, for an element, so is
\* its set or map
ContainerExists(st, obj) ==
    CASE obj.kind = "table" -> TRUE
      [] obj.kind = "element" ->
            /\ getTable(obj.Table) \in DOMAIN st.Tables
            /\ IF obj.Set # ""
               THEN obj.Set \in DOMAIN st.Tables[getTable(obj.Table)].Sets
               ELSE obj.Map \in DOMAIN st.Tables[getTable(obj.Table)].Maps
      [] OTHER -> getTable(obj.Table) \in DOMAIN st.Tables

\* the object that an operation names is in a working state whose table
\* (and set or map) is there
TargetExists(st, obj) ==
    LET table == st.Tables[getTable(obj.Table)]
    IN  CASE obj.kind = "table" -> getTable(obj.Name) \in DOMAIN st.Tables
          [] obj.kind = "flowtable" -> obj.Name \in DOMAIN table.Flowtables
          [] obj.kind = "chain" -> obj.Name \in DOMAIN table.Chains
          [] obj.kind = "set" -> obj.Name \in DOMAIN table.Sets
          [] obj.kind = "map" -> obj.Name \in DOMAIN table.Maps
          [] obj.kind = "counter" -> obj.Name \in DOMAIN table.Counters
          [] obj.kind = "element" ->
                \E i \in 1..Len(IF obj.Set # "" THEN table.Sets[obj.Set].Elements
                                 ELSE table.Maps[obj.Map].Elements) :
                    (IF obj.Set # "" THEN table.Sets[obj.Set].Elements
                     ELSE table.Maps[obj.Map].Elements)[i].Key = obj.Key

\* an operation of the last Run that is processed, with the given verb, on
\* an object whose table (and set or map) is there
KindStep(k, verb) ==
    /\ Reached(Fake, RunTx, k)
    /\ RunTx.operations[k].verb = verb
    /\ RunTx.operations[k].obj.kind # "rule"
    /\ ContainerExists(Before(Fake, RunTx, k), RunTx.operations[k].obj)

\* C13: for every kind of object that supports create (table, flowtable,
\* chain, set, map, counter, element), a create of an object that is not in
\* the working copy succeeds and the object is there afterwards; a create
\* of an object that is there fails with AlreadyExists.
C13_CreateSemantics ==
    [][ret'.call = "Run" =>
        \A k \in 1..Len(RunTx.operations) :
            KindStep(k, createVerb) =>
                LET obj == RunTx.operations[k].obj
                    b == Before(Fake, RunTx, k)
                    a == After(Fake, RunTx, k)
                IN  IF TargetExists(b, obj)
                    THEN a.err = AlreadyExists
                    ELSE a.err = NoErr /\ TargetExists(a, obj)]_vars

(***************************************************************************)
(* The specification SpecRemove: objects of every kind are added, and      *)
(* deleted, destroyed, flushed or reset, whether they are there or not.    *)
(***************************************************************************)
\* the kinds whose contents a flush clears
FlushKinds == {"table", "chain", "set", "map"}

\* a table, a chain, a map with an element, and a counter
RemoveObjs == {o \in KindObjs : /\ o.kind \in {"table", "chain", "map", "element", "counter"}
                                /\ o.kind = "element" => o.Map # ""}

RemoveOps ==
    {Op(v, o) : v \in {addVerb, deleteVerb, destroyVerb}, o \in RemoveObjs}
    \cup {Op(flushVerb, o) : o \in {x \in RemoveObjs : x.kind \in FlushKinds}}
    \cup {Op(resetVerb, CounterObj("k1", 1, PtrTo(7)))}

RemoveTxs == {Tx(<<a>>) : a \in RemoveOps}

NextRemove == \E tx \in RemoveTxs : Run(tx) \/ Check(tx)

SpecRemove == Init /\ [][NextRemove]_vars

\* C14: for every kind of object, a delete, flush, reset or replace of an
\* object that is not there fails with NotFound, while a destroy of an
\* object that is not there succeeds and changes nothing; a delete and a
\* destroy of an object that is there both remove it.
C14_DeleteVersusDestroy ==
    [][ret'.call = "Run" =>
        \A k \in 1..Len(RunTx.operations) :
            \A verb \in {deleteVerb, destroyVerb, flushVerb, resetVerb, replaceVerb} :
                KindStep(k, verb) =>
                    LET obj == RunTx.operations[k].obj
                        b == Before(Fake, RunTx, k)
                        a == After(Fake, RunTx, k)
                    IN  IF ~TargetExists(b, obj)
                        THEN IF verb = destroyVerb
                             THEN /\ a.err = NoErr
                                  /\ a.Tables = b.Tables /\ a.heap = b.heap
                             ELSE a.err = NotFound
                        ELSE verb \in {deleteVerb, destroyVerb} =>
                                /\ a.err = NoErr
                                /\ ~(ContainerExists(a, obj) /\ TargetExists(a, obj))]_vars

(***************************************************************************)
(* The specification SpecElems: a set and a map and the operations on      *)
(* their elements.  Keys are tuples of strings.                            *)
(***************************************************************************)
\* the keys a caller names: two tuples of the same strings in two orders,
\* and a tuple of one string
ElemKeys == {<<"x">>, <<"x", "y">>, <<"y", "x">>}

SetElemOps ==
    {Op(v, ElementObj("s1", "", key, << >>, Nil)) :
        v \in {addVerb, createVerb, deleteVerb, destroyVerb}, key \in ElemKeys}
    \cup {Op(addVerb, ElementObj("s1", "", <<"x">>, << >>, PtrTo("c")))}

MapElemOps ==
    {Op(v, ElementObj("", "m1", <<"x">>, <<<<val>>>>, Nil)) :
        v \in {addVerb, createVerb}, val \in {"v1", "v2"}}
    \cup {Op(deleteVerb, ElementObj("", "m1", <<"x">>, << >>, Nil))}

ElemSetupOps ==
    {Op(addVerb, TableObj("")), Op(addVerb, SetObj("s1")), Op(addVerb, MapObj("m1")),
     Op(flushVerb, SetObj("s1"))}

ElemTxs ==
    {Tx(<<a>>) : a \in ElemSetupOps \cup SetElemOps \cup MapElemOps}
    \cup {Tx(<<Op(addVerb, TableObj("")), Op(addVerb, SetObj("s1"))>>)}
    \cup {Tx(<<Op(addVerb, ElementObj("s1", "", <<"x">>, << >>, Nil)), b>>) :
            b \in {o \in SetElemOps : o.verb \in {addVerb, createVerb}}}

NextElems == \E tx \in ElemTxs : Run(tx) \/ Check(tx)

SpecElems == Init /\ [][NextElems]_vars

\* the sets and maps of a forest, each as <<table, "set" or "map", name>>
Collections(tables) ==
    UNION {{<<t, "set", n>> : n \in DOMAIN tables[t].Sets}
           \cup {<<t, "map", n>> : n \in DOMAIN tables[t].Maps} : t \in DOMAIN tables}

\* the elements of a set or map of a forest, << >> when it is not there
ElementsOf(tables, c) ==
    IF c[1] \notin DOMAIN tables THEN << >>
    ELSE IF c[2] = "set"
    THEN IF c[3] \in DOMAIN tables[c[1]].Sets
         THEN tables[c[1]].Sets[c[3]].Elements ELSE << >>
    ELSE IF c[3] \in DOMAIN tables[c[1]].Maps
         THEN tables[c[1]].Maps[c[3]].Elements ELSE << >>

\* the keys of a sequence of elements
KeysOf(elements) == {elements[i].Key : i \in 1..Len(elements)}

\* the set or map that an element operation names
CollectionOf(obj) ==
    IF obj.Set # "" THEN <<getTable(obj.Table), "set", obj.Set>>
    ELSE <<getTable(obj.Table), "map", obj.Map>>

\* the keys that the k-th operation of a transaction submits to a set or
\* map by add or create
Submitted(tx, k, c) ==
    IF /\ tx.operations[k].obj.kind = "element"
       /\ tx.operations[k].verb \in {addVerb, createVerb}
       /\ CollectionOf(tx.operations[k].obj) = c
    THEN {tx.operations[k].obj.Key} ELSE {}

\* C15: in every committed state no two elements of a set or of a map have
\* equal key tuples, and a set or map never holds more elements than
\* distinct key tuples were submitted to it by add and create: an operation
\* brings into a set or map no key other than the one it submits.
C15_ElementKeysUnique ==
    /\ [](\A c \in Collections(Tables) :
            \A i, j \in 1..Len(ElementsOf(Tables, c)) :
                i # j => ElementsOf(Tables, c)[i].Key # ElementsOf(Tables, c)[j].Key)
    /\ [][ret'.call = "Run" =>
            \A k \in 1..Len(RunTx.operations) :
                Reached(Fake, RunTx, k) =>
                    LET b == Before(Fake, RunTx, k)
                        a == After(Fake, RunTx, k)
                    IN  \A c \in Collections(a.Tables) :
                            /\ KeysOf(ElementsOf(a.Tables, c))
                                  \subseteq KeysOf(ElementsOf(b.Tables, c))
                                            \cup Submitted(RunTx, k, c)
                            /\ Len(ElementsOf(a.Tables, c))
                                  = Cardinality(KeysOf(ElementsOf(a.Tables, c)))]_vars

\* C15 witness: an add of an element whose key was there has been committed
\* and the set holds the two tuples of the same strings in the two orders
C15_Witness ==
    /\ ret.call = "Run" /\ ret.err = NoErr
    /\ Len(LastTransaction[1].operations) = 1
    /\ LastTransaction[1].operations[1].verb = addVerb
    /\ LastTransaction[1].operations[1].obj.kind = "element"
    /\ LastTransaction[1].operations[1].obj.Key = <<"x", "y">>
    /\ Len(ElementsOf(Tables, <<DefaultTable, "set", "s1">>)) = 2
    /\ ElementsOf(Tables, <<DefaultTable, "set", "s1">>)[1].Key = <<"x", "y">>
    /\ ElementsOf(Tables, <<DefaultTable, "set", "s1">>)[2].Key = <<"y", "x">>

\* an element operation of the last Run that is processed, with its set or
\* map there
ElementStep(k, verb) ==
    /\ KindStep(k, verb)
    /\ RunTx.operations[k].obj.kind = "element"

\* C16: an add of an element whose key is in the set or map replaces the
\* stored element's value and comment with the new ones and leaves the
\* number and the order of the elements as they were; a create of such an
\* element fails with AlreadyExists and the stored element is as it was.
C16_ElementOverwrite ==
    [][ret'.call = "Run" =>
        \A k \in 1..Len(RunTx.operations) :
            \A verb \in {addVerb, createVerb} :
                ElementStep(k, verb) =>
                    LET obj == RunTx.operations[k].obj
                        b == Before(Fake, RunTx, k)
                        a == After(Fake, RunTx, k)
                        E == ElementsOf(b.Tables, CollectionOf(obj))
                        E2 == ElementsOf(a.Tables, CollectionOf(obj))
                    IN  \A i \in 1..Len(E) :
                            E[i].Key = obj.Key =>
                                IF verb = addVerb
                                THEN /\ a.err = NoErr
                                     /\ Len(E2) = Len(E)
                                     /\ E2[i].Key = obj.Key
                                     /\ E2[i].Value = obj.Value
                                     /\ E2[i].Comment = obj.Comment
                                     /\ \A j \in 1..Len(E) : j # i => E2[j] = E[j]
                                ELSE /\ a.err = AlreadyExists
                                     /\ E2 = E]_vars

\* C16 witness: an add of the element x with a comment has been committed,
\* the stored element has the comment, and it stands before another element
\* of the set: it was there before the add
C16_Witness ==
    /\ ret.call = "Run" /\ ret.err = NoErr
    /\ Len(LastTransaction[1].operations) = 1
    /\ LastTransaction[1].operations[1].verb = addVerb
    /\ LastTransaction[1].operations[1].obj.kind = "element"
    /\ LastTransaction[1].operations[1].obj.Comment = PtrTo("c")
    /\ Len(ElementsOf(Tables, <<DefaultTable, "set", "s1">>)) = 2
    /\ ElementsOf(Tables, <<DefaultTable, "set", "s1">>)[1].Key = <<"x">>
    /\ ElementsOf(Tables, <<DefaultTable, "set", "s1">>)[1].Comment = PtrTo("c")

(***************************************************************************)
(* The specification SpecRefs: rules and map elements that refer to        *)
(* chains, sets, maps and flowtables, which are there, are added by an     *)
(* earlier or a later operation of the transaction, or are missing.        *)
(***************************************************************************)
\* the rule bodies "jump c2", "vmap @m1", "@s1", "offload @f1" and "@th,16"
RefBodies ==
    {<<Word("jump"), Word("c2")>>, <<Word("vmap"), AtWord("m1")>>, <<AtWord("s1")>>,
     <<Word("offload"), AtWord("f1")>>, <<AtWordComma("th")>>}

\* the objects the bodies refer to
RefTargets == {ChainObj("c2"), SetObj("s1"), MapObj("m1"), FlowtableObj("f1")}

RefRuleOps == {Op(addVerb, RuleObj("c1", body, Nil, Nil)) : body \in RefBodies}

\* the map element with the value "jump c2"
RefElemOp == Op(addVerb, ElementObj("", "m1", <<"x">>, <<<<"jump", "c2">>>>, Nil))

RefTxs ==
    {Tx(<<Op(addVerb, TableObj("")), Op(addVerb, ChainObj("c1"))>>),
     Tx(<<Op(addVerb, CounterObj("k1", 1, PtrTo(7)))>>),
     Tx(<<Op(deleteVerb, ChainObj("c2"))>>),
     Tx(<<RefElemOp>>)}
    \cup {Tx(<<Op(addVerb, o)>>) : o \in RefTargets}
    \cup {Tx(<<a>>) : a \in RefRuleOps}
    \cup {Tx(<<Op(addVerb, o), a>>) : o \in RefTargets, a \in RefRuleOps}
    \cup {Tx(<<a, Op(addVerb, ChainObj("c2"))>>) : a \in RefRuleOps \cup {RefElemOp}}
    \cup {Tx(<<Op(deleteVerb, ChainObj("c2")), RefElemOp>>)}
    \cup {Tx(<<Op(resetVerb, CounterObj("k1", 1, Nil)), a>>) :
            a \in RefRuleOps \cup {RefElemOp}}

NextRefs == \E tx \in RefTxs : Run(tx) \/ Check(tx)

SpecRefs == Init /\ [][NextRefs]_vars

\* every object that the words of a rule body refer to is in the table: the
\* chain after a "jump" or "goto"; for a word "@N" without a comma the map
\* N after "map" or "vmap", the flowtable N after "offload", and otherwise
\* the set or map N
RuleRefsPresent(words, table) ==
    \A i \in 1..Len(words) :
        /\ (words[i].at /\ ~words[i].comma) =>
              IF i > 1 /\ words[i - 1] \in {Word("map"), Word("vmap")}
              THEN words[i].text \in DOMAIN table.Maps
              ELSE IF i > 1 /\ words[i - 1] = Word("offload")
              THEN words[i].text \in DOMAIN table.Flowtables
              ELSE words[i].text \in (DOMAIN table.Sets) \cup (DOMAIN table.Maps)
        /\ (words[i] \in {Word("jump"), Word("goto")} /\ i < Len(words)) =>
              /\ ~words[i + 1].at
              /\ words[i + 1].text \in DOMAIN table.Chains

\* the chain that the single value "jump X" or "goto X" of a map element
\* refers to is in the table
ElementRefsPresent(obj, table) ==
    (/\ Len(obj.Value) = 1
     /\ Len(obj.Value[1]) = 2
     /\ obj.Value[1][1] \in {"jump", "goto"}) =>
        obj.Value[1][2] \in DOMAIN table.Chains

\* the k-th operation of the last Run is processed and is an add of a rule
\* to a chain that is there, at a position that resolves, or an add of an
\* element to a map that is there
RefStep(k) ==
    \/ /\ RuleStep(k, addVerb)
       /\ ~Unresolvable(ChainRules(Before(Fake, RunTx, k), RunTx.operations[k]),
                        RunTx.operations[k].obj)
    \/ /\ ElementStep(k, addVerb)
       /\ RunTx.operations[k].obj.Map # ""

\* the objects that the k-th operation refers to are in the working copy
\* as the operation finds it
RefsPresent(k) ==
    LET obj == RunTx.operations[k].obj
        table == Before(Fake, RunTx, k).Tables[getTable(obj.Table)]
    IN  IF obj.kind = "rule" THEN RuleRefsPresent(obj.Rule, table)
        ELSE ElementRefsPresent(obj, table)

\* C17: an add of a rule that refers to a chain, set, map or flowtable that
\* is not in the working copy, or of a map element whose single value jumps
\* to a chain that is not there, fails with NotFound and leaves the
\* committed state unchanged.
C17_ReferenceIntegrity ==
    [][ret'.call = "Run" =>
        \A k \in 1..Len(RunTx.operations) :
            (RefStep(k) /\ ~RefsPresent(k)) =>
                /\ After(Fake, RunTx, k).err = NotFound
                /\ ret'.err = NotFound
                /\ Committed' = Committed]_vars

\* C18: the validation of an operation sees exactly the objects that the
\* earlier operations of the same transaction have created or removed: an
\* add of a rule or map element is accepted when every object it refers to
\* is in the working copy as the earlier operations have left it, and is
\* rejected with NotFound when one is not - also when a later operation of
\* the transaction creates it.
C18_ValidationFollowsOrder ==
    [][ret'.call = "Run" =>
        \A k \in 1..Len(RunTx.operations) :
            RefStep(k) =>
                After(Fake, RunTx, k).err
                    = (IF RefsPresent(k) THEN NoErr ELSE NotFound)]_vars

\* C18 witness: a Run of [Add(Chain c2), Add(Rule "jump c2")] has been
\* committed on a table that had no chain c2: the rule is the last of c1
\* and the chain has the handle given just before the rule's
C18_Witness ==
    /\ ret.call = "Run" /\ ret.err = NoErr
    /\ Len(LastTransaction[1].operations) = 2
    /\ LastTransaction[1].operations[1] = Op(addVerb, ChainObj("c2"))
    /\ LastTransaction[1].operations[2].obj.kind = "rule"
    /\ LastTransaction[1].operations[2].obj.Rule = <<Word("jump"), Word("c2")>>
    /\ Tables[DefaultTable].Chains["c2"].Chain.Handle = PtrTo(nextHandle - 1)
    /\ CommittedRules[Len(CommittedRules)].Handle = PtrTo(nextHandle)

(***************************************************************************)
(* Dump and ParseDump.  A line of the text is a record of the fields that  *)
(* the line shows: the verb, the kind, the table, and what the kind writes *)
(* after them.  A line shows no handle unless the operation is relative to *)
(* one, and an element line shows the name of its set or map without       *)
(* saying which of the two it is.                                          *)
(***************************************************************************)
\* the names of the model in the order of Go's < on strings
NameOrder == <<"c1", "c2", "f1", "k1", "m1", "s1", "t0", "t1">>

sortKeys_Reversed(m) ==
    LET keys == SelectSeq(NameOrder, LAMBDA n : n \in DOMAIN m)
    IN  [i \in 1..Len(keys) |-> keys[Len(keys) + 1 - i]]

\* sortKeys: the keys of a map, sorted
sortKeys(m) == SelectSeq(NameOrder, LAMBDA n : n \in DOMAIN m)

\* Flowtable.writeOperation: the line of a flowtable
writeFlowtable(verb, obj) ==
    [verb |-> verb, kind |-> "flowtable", table |-> getTable(obj.Table),
     name |-> obj.Name]

\* Counter.writeOperation: the line of a counter, with its packets and bytes
writeCounter(verb, obj) ==
    [verb |-> verb, kind |-> "counter", table |-> getTable(obj.Table),
     name |-> obj.Name, packets |-> obj.Packets, bytes |-> obj.Bytes,
     comment |-> obj.Comment]

\* Object.writeOperation, by kind
writeOperation(verb, obj) ==
    CASE obj.kind = "table" ->
            [verb |-> verb, kind |-> "table", table |-> getTable(obj.Name),
             comment |-> obj.Comment]
      [] obj.kind = "flowtable" -> writeFlowtable(verb, obj)
      [] obj.kind \in {"chain", "set", "map"} ->
            [verb |-> verb, kind |-> obj.kind, table |-> getTable(obj.Table),
             name |-> obj.Name, comment |-> obj.Comment]
      [] obj.kind = "rule" ->
            [verb |-> verb, kind |-> "rule", table |-> getTable(obj.Table),
             chain |-> obj.Chain, index |-> obj.Index,
             handle |-> IF obj.Index # Nil THEN Nil ELSE obj.Handle,
             rule |-> obj.Rule, comment |-> obj.Comment]
      [] obj.kind = "element" ->
            [verb |-> verb, kind |-> "element", table |-> getTable(obj.Table),
             name |-> IF obj.Set # "" THEN obj.Set ELSE obj.Map,
             key |-> obj.Key, value |-> obj.Value, comment |-> obj.Comment]
      [] obj.kind = "counter" -> writeCounter(verb, obj)

\* the concatenation of a sequence of sequences
RECURSIVE Flatten(_)
Flatten(ss) == IF ss = << >> THEN << >> ELSE Head(ss) \o Flatten(Tail(ss))

\* the lines that f writes for the values of a map, in the order of its
\* sorted keys
SortedLines(m, f(_)) ==
    Flatten([i \in 1..Len(sortKeys(m)) |-> f(m[sortKeys(m)[i]])])

\* a FakeCounter as the Counter object that writeOperation is called on
CounterOf(c) ==
    [kind |-> "counter", Table |-> c.Table, Name |-> c.Name, Handle |-> c.Handle,
     Packets |-> c.Packets, Bytes |-> c.Bytes, Comment |-> c.Comment]

\* Fake.dumpTable: the objects first, then their contents
dumpTable(table, h) ==
    LET add(o) == <<writeOperation(addVerb, o)>>
        rules(ch) == [i \in 1..Len(ch.Rules) |->
                        writeOperation(addVerb,
                            [ch.Rules[i] EXCEPT !.Handle = Nil, !.Index = Nil])]
        elements(c) == [i \in 1..Len(c.Elements) |->
                            writeOperation(addVerb, c.Elements[i])]
    IN  add(table.Table)
        \o SortedLines(table.Flowtables, LAMBDA ft : add(ft.Flowtable))
        \o SortedLines(table.Chains, LAMBDA ch : add(ch.Chain))
        \o SortedLines(table.Sets, LAMBDA x : add(x.Set))
        \o SortedLines(table.Maps, LAMBDA m : add(m.Map))
        \o SortedLines(table.Counters, LAMBDA a : add(CounterOf(h[a].Counter)))
        \o SortedLines(table.Chains, rules)
        \o SortedLines(table.Sets, elements)
        \o SortedLines(table.Maps, elements)

\* Fake.Dump: the tables in the order of their sorted names
DumpOf(tables, h) == SortedLines(tables, LAMBDA table : dumpTable(table, h))

\* Object.parse, by kind: the object that a line of a dump describes.  The
\* table of the line is the engine's and is cleared; an element with a
\* value is an element of a map, one without is an element of a set.
parse(line) ==
    CASE line.kind = "table" ->
            [kind |-> "table", Name |-> "", Handle |-> Nil, Comment |-> line.comment]
      [] line.kind = "flowtable" ->
            [kind |-> "flowtable", Table |-> "", Name |-> line.name, Handle |-> Nil]
      [] line.kind \in {"chain", "set", "map"} ->
            [kind |-> line.kind, Table |-> "", Name |-> line.name, Handle |-> Nil,
             Comment |-> line.comment]
      [] line.kind = "rule" ->
            [kind |-> "rule", Table |-> "", Chain |-> line.chain, Rule |-> line.rule,
             Index |-> line.index, Handle |-> line.handle, Comment |-> line.comment]
      [] line.kind = "element" ->
            [kind |-> "element", Table |-> "",
             Set |-> IF line.value = << >> THEN line.name ELSE "",
             Map |-> IF line.value = << >> THEN "" ELSE line.name,
             Key |-> line.key, Value |-> line.value, Comment |-> line.comment]
      [] line.kind = "counter" ->
            [kind |-> "counter", Table |-> "", Name |-> line.name, ptr |-> 1,
             Packets |-> line.packets, Bytes |-> line.bytes, Comment |-> line.comment]

\* Fake.ParseDump on the engine fake: a line that is no add line or names
\* another table than the engine's is an error and nothing is run; else the
\* objects of the lines are added by one transaction
ParseDumpOf(fake, data) ==
    IF \E i \in 1..Len(data) : data[i].verb # addVerb \/ data[i].table # DefaultTable
    THEN [Tables |-> fake.Tables, heap |-> fake.heap, nextHandle |-> fake.nextHandle,
          objs |-> FreshObjs, err |-> OtherErr]
    ELSE run(fake, Tx([i \in 1..Len(data) |-> Op(addVerb, parse(data[i]))]))

\* the engine that NewFake returns
FreshFake == [Tables |-> EmptyMap, heap |-> EmptyMap, nextHandle |-> 0]

\* the number of times a line occurs in a text
LineCount(data, line) == Cardinality({i \in 1..Len(data) : data[i] = line})

\* the lines of a text
Lines(data) == {data[i] : i \in 1..Len(data)}

\* C19: for every committed state S, ParseDump(Dump(S)) on a fresh engine
\* bound to the same table returns no error and yields a state whose Dump
\* is the Dump of S as a multiset of lines.
C19_DumpParseRoundTrip ==
    LET data == DumpOf(Tables, heap)
        r == ParseDumpOf(FreshFake, data)
    IN  /\ r.err = NoErr
        /\ \A line \in Lines(data) \cup Lines(DumpOf(r.Tables, r.heap)) :
              LineCount(DumpOf(r.Tables, r.heap), line) = LineCount(data, line)

(***************************************************************************)
(* The specification SpecDump: objects of every kind, two chains and a     *)
(* second table, created one by one in any order.                          *)
(***************************************************************************)
\* an object put into the table t
InTable(obj, t) == [obj EXCEPT !.Table = t]

DumpOps ==
    {Op(addVerb, TableObj("")), Op(addVerb, TableObj("t0")),
     Op(addVerb, ChainObj("c1")), Op(addVerb, ChainObj("c2")),
     Op(addVerb, InTable(ChainObj("c1"), "t0")),
     Op(addVerb, FlowtableObj("f1")), Op(addVerb, SetObj("s1")),
     Op(addVerb, MapObj("m1")), Op(addVerb, CounterObj("k1", 1, Nil)),
     Op(addVerb, RuleObj("c1", <<Word("drop")>>, Nil, Nil)),
     Op(insertVerb, RuleObj("c1", <<Word("accept")>>, Nil, Nil)),
     Op(addVerb, RuleObj("c2", <<Word("drop")>>, Nil, Nil)),
     Op(addVerb, ElementObj("s1", "", <<"x">>, << >>, Nil)),
     Op(addVerb, ElementObj("s1", "", <<"y">>, << >>, Nil)),
     Op(addVerb, ElementObj("", "m1", <<"x">>, <<<<"v">>>>, Nil))}

DumpTxs == {Tx(<<a>>) : a \in DumpOps}

NextDump == \E tx \in DumpTxs : Run(tx)

SpecDump == Init /\ [][NextDump]_vars

\* the place of a name in the order of the names
Pos(n) == CHOOSE i \in 1..Len(NameOrder) : NameOrder[i] = n

\* the group of a line within its table: the table, the flowtables, chains,
\* sets, maps and counters, then the rules, the elements of sets (no
\* value) and the elements of maps
Group(line) ==
    CASE line.kind = "table" -> 1
      [] line.kind = "flowtable" -> 2
      [] line.kind = "chain" -> 3
      [] line.kind = "set" -> 4
      [] line.kind = "map" -> 5
      [] line.kind = "counter" -> 6
      [] line.kind = "rule" -> 7
      [] line.kind = "element" -> IF line.value = << >> THEN 8 ELSE 9

\* the name a line is sorted by within its group
SortName(line) ==
    CASE line.kind = "table" -> line.table
      [] line.kind = "rule" -> line.chain
      [] OTHER -> line.name

\* the line a comes before the line b; two lines of the same chain, set or
\* map may follow each other
ComesBefore(a, b) ==
    \/ Pos(a.table) < Pos(b.table)
    \/ /\ a.table = b.table
       /\ \/ Group(a) < Group(b)
          \/ /\ Group(a) = Group(b)
             /\ \/ Pos(SortName(a)) < Pos(SortName(b))
                \/ Group(a) >= 7 /\ SortName(a) = SortName(b)

\* the names on the lines of a kind in a table
LineNames(data, t, kind) ==
    {data[i].name : i \in {j \in 1..Len(data) : data[j].table = t /\ data[j].kind = kind}}

\* the lines of the elements es of the set or map n of the table t
ElementLines(t, n, es) ==
    [i \in 1..Len(es) |->
        [verb |-> addVerb, kind |-> "element", table |-> t, name |-> n,
         key |-> es[i].Key, value |-> es[i].Value, comment |-> es[i].Comment]]

MaxOps == 2

\* Table.validate, Chain.validate (of a regular chain) and Rule.validate:
\* the error of an object for a verb.  This validator knows the verbs add,
\* flush and delete of tables and chains.
validate(verb, obj) ==
    CASE obj.kind = "table" ->
            IF verb \in {addVerb, flushVerb}
            THEN IF obj.Handle # Nil THEN "cannot specify Handle" ELSE NoErr
            ELSE IF verb = deleteVerb THEN NoErr
            ELSE "not implemented for tables"
      [] obj.kind = "chain" ->
            IF obj.Name = "" THEN "no name specified for chain"
            ELSE IF verb \in {addVerb, flushVerb}
            THEN IF obj.Handle # Nil THEN "cannot specify Handle" ELSE NoErr
            ELSE IF verb = deleteVerb THEN NoErr
            ELSE "not implemented for chains"
      [] obj.kind = "rule" ->
            IF obj.Chain = "" THEN "no chain name specified for rule"
            ELSE IF obj.Index # Nil /\ obj.Handle # Nil
            THEN "cannot specify both Index and Handle"
            ELSE IF verb \in {deleteVerb, replaceVerb} /\ obj.Handle = Nil
            THEN "must specify Handle"
            ELSE NoErr

operation_NotSticky(tx, verb, obj) ==
    IF validate(verb, obj) # NoErr
    THEN [tx EXCEPT !.err = validate(verb, obj)]
    ELSE [tx EXCEPT !.err = NoErr, !.operations = Append(@, Op(verb, obj))]

\* Transaction.operation, which Add, Create, Flush, Delete, Insert and
\* Replace call with their verb
operation(tx, verb, obj) ==
    IF tx.err # NoErr THEN tx
    ELSE IF validate(verb, obj) # NoErr
    THEN [tx EXCEPT !.err = validate(verb, obj)]
    ELSE [tx EXCEPT !.operations = Append(@, Op(verb, obj))]

\* the append calls of the caller: valid ones and invalid ones with
\* different errors
BuildCalls ==
    {Op(addVerb, TableObj("")), Op(addVerb, ChainObj("c1")),
     Op(addVerb, RuleObj("", <<Word("a")>>, Nil, Nil)),
     Op(deleteVerb, RuleObj("c1", << >>, Nil, Nil)),
     Op(insertVerb, ChainObj("c1"))}

\* the transaction the caller builds.  A Transaction is used through a
\* pointer: addr is the address of the object, which fake.LastTransaction
\* holds after a Run of it
Built == thr[1].tx

\* the caller has made a transaction
HasBuilt == "addr" \in DOMAIN Built

\* the address in fake.LastTransaction, << >> for nil
LastAddr ==
    IF LastTransaction = Nil \/ "addr" \notin DOMAIN LastTransaction[1] THEN Nil
    ELSE PtrTo(LastTransaction[1].addr)

\* NewTransaction: a new object at an address that is not in use
NewTransaction ==
    /\ thr' = [thr EXCEPT ![1].tx =
                 [operations |-> << >>, err |-> NoErr, objs |-> FreshObjs,
                  addr |-> IF LastAddr = PtrTo(0) THEN 1 ELSE 0]]
    /\ UNCHANGED <<Tables, heap, nextHandle, LastTransaction, ret, mutex, obs, published>>

\* Add, Flush, Delete, Insert, Replace: one append call on the object,
\* which fake.LastTransaction shows when it points to it
AppendCall(call) ==
    /\ HasBuilt
    /\ Len(Built.operations) < MaxOps
    /\ thr' = [thr EXCEPT ![1].tx = operation(@, call.verb, call.obj)]
    /\ LastTransaction' = IF LastAddr = PtrTo(Built.addr)
                          THEN <<operation(Built, call.verb, call.obj)>>
                          ELSE LastTransaction
    /\ UNCHANGED <<Tables, heap, nextHandle, ret, mutex, obs, published>>

NextBuild ==
    \/ NewTransaction
    \/ \E call \in BuildCalls : AppendCall(call)
    \/ HasBuilt /\ Run(Built)
    \/ HasBuilt /\ Check(Built)

SpecBuild == Init /\ [][NextBuild]_vars

\* C21: once an append call has failed validation, every further append
\* call, valid or invalid, leaves the recorded operations and the stored
\* error as they are, and the stored error is that of the failed call; a
\* Run or Check of such a transaction returns that error, applies no
\* operation and leaves the committed state and the handle counter as they
\* are.
C21_PoisonedTransaction ==
    /\ [](\A call \in BuildCalls :
            /\ Built.err # NoErr => operation(Built, call.verb, call.obj) = Built
            /\ (Built.err = NoErr /\ validate(call.verb, call.obj) # NoErr) =>
                  operation(Built, call.verb, call.obj)
                    = [Built EXCEPT !.err = validate(call.verb, call.obj)])
    /\ [][(Built.err # NoErr /\ thr' = thr) =>
            /\ ret'.err = Built.err
            /\ ret'.call \in {"Run", "Check"}
            /\ UNCHANGED <<Tables, heap, nextHandle>>]_vars

\* C28: after every Run(tx), whether it succeeds or fails,
\* fake.LastTransaction is tx; Check, NewTransaction and the append calls
\* leave the pointer as it is, and what it points to is the transaction
\* as the caller has it.
C28_LastTransaction ==
    /\ [][IF thr' = thr /\ ret'.call = "Run"
          THEN LastTransaction' = <<Built>>
          ELSE LastAddr' = LastAddr]_vars
    /\ []((HasBuilt /\ LastAddr = PtrTo(Built.addr)) => LastTransaction = <<Built>>)

\* a Run of a transaction that adds a chain without its table has failed,
\* and a Check of another transaction has followed
C28_Witness ==
    /\ ret = [call |-> "Check", err |-> NoErr]
    /\ LastTransaction # Nil
    /\ LastTransaction[1].operations = <<Op(addVerb, ChainObj("c1"))>>
    /\ Tables = EmptyMap
    /\ HasBuilt
    /\ Built.operations = <<Op(addVerb, TableObj(""))>>
    /\ nextHandle = 2

\* a transaction with a recorded operation has been poisoned, another
\* append call has followed, and Run has returned its error on a table
\* that is there
C21_Witness ==
    /\ Built.err = "no chain name specified for rule"
    /\ Len(Built.operations) = 1
    /\ ret = [call |-> "Run", err |-> Built.err]
    /\ LastTransaction = <<Built>>
    /\ DefaultTable \in DOMAIN Tables

(***************************************************************************)
(* The specification SpecDestroy: objects are added one by one, and        *)
(* destroyed by an engine that has the destroy verb and by one that        *)
(* emulates it.                                                            *)
(***************************************************************************)
\* Transaction.Destroy: the operations it records, with the destroy verb
\* when the engine has it and else an add followed by a delete
Destroy(hasDestroy, obj) ==
    IF hasDestroy THEN <<Op(destroyVerb, obj)>>
    ELSE <<Op(addVerb, obj), Op(deleteVerb, obj)>>

\* one object of every kind that supports destroy
DestroyObjs == {o \in KindObjs : o.kind \in {"table", "chain", "set", "map", "element"}}

\* the objects that are added: those, a second element of the set, another
\* value for the key of the map, and a rule of the chain
DestroySetupOps ==
    {Op(addVerb, o) : o \in DestroyObjs}
    \cup {Op(addVerb, ElementObj("s1", "", <<"y">>, << >>, Nil)),
          Op(addVerb, ElementObj("", "m1", <<"x">>, <<<<"z">>>>, Nil)),
          Op(addVerb, RuleObj("c1", <<Word("a")>>, Nil, Nil))}

DestroyTxs == {Tx(Destroy(has, o)) : has \in BOOLEAN, o \in DestroyObjs}

NextDestroy ==
    \/ \E a \in DestroySetupOps : Run(Tx(<<a>>))
    \/ \E tx \in DestroyTxs : Run(tx)

SpecDestroy == Init /\ [][NextDestroy]_vars

\* the errors of the transaction builder, as against those of the engine
IsValidationErr(err) == err \notin {NoErr, NotFound, AlreadyExists, OtherErr, Panic}

\* the Run that has just returned was of Destroy(obj) on an engine with
\* (has) or without the destroy verb, and on the other kind of engine the
\* Destroy from the same state fails with the same error, one of errs, or
\* both succeed with the same Dump
DestroyAgrees(errs) ==
    \A has \in BOOLEAN, obj \in DestroyObjs :
        (ret'.call = "Run" /\ RunTx = Tx(Destroy(has, obj))) =>
            LET other == run(Fake, Tx(Destroy(~has, obj)))
            IN  \/ ret'.err = other.err /\ ret'.err \in errs
                \/ /\ ret'.err = NoErr
                   /\ other.err = NoErr
                   /\ DumpOf(Tables', heap') = DumpOf(other.Tables, other.heap)

FlushAdds ==
    {Op(addVerb, [TableObj("") EXCEPT !.Comment = PtrTo("foo")]),
     Op(addVerb, ChainObj("c1")),
     Op(addVerb, SetObj("s1")),
     Op(addVerb, ElementObj("s1", "", <<"x">>, << >>, Nil)),
     Op(addVerb, MapObj("m1")),
     Op(addVerb, ElementObj("", "m1", <<"x">>, <<<<"y">>>>, Nil)),
     Op(addVerb, FlowtableObj("f1")),
     Op(addVerb, CounterObj("k1", 1, PtrTo(7)))}

FlushOps ==
    {Op(flushVerb, o) : o \in {TableObj(""), ChainObj("c1"), SetObj("s1"), MapObj("m1")}}

\* single operations, and a flush after an add of the same transaction
FlushTxs ==
    {Tx(<<a>>) : a \in FlushAdds \cup FlushOps}
    \cup {Tx(<<Op(addVerb, RuleObj("c1", <<Word("a")>>, Nil, Nil)),
               Op(flushVerb, ChainObj("c1"))>>),
          Tx(<<Op(addVerb, ElementObj("s1", "", <<"x">>, << >>, Nil)),
               Op(flushVerb, SetObj("s1"))>>),
          Tx(<<Op(addVerb, ElementObj("", "m1", <<"x">>, <<<<"y">>>>, Nil)),
               Op(flushVerb, MapObj("m1"))>>)}

NextFlush == \E tx \in FlushTxs : Run(tx)

SpecFlush == Init /\ [][NextFlush]_vars

\* the k-th operation of the last Run is processed and is a flush of an
\* object of the kind
FlushStep(k, kind) ==
    /\ Reached(Fake, RunTx, k)
    /\ RunTx.operations[k].verb = flushVerb
    /\ RunTx.operations[k].obj.kind = kind

\* the forest with the chain, set or map obj emptied and all else as it is
Emptied(tables, obj) ==
    LET t == getTable(obj.Table)
    IN  CASE obj.kind = "chain" -> [tables EXCEPT ![t].Chains[obj.Name].Rules = << >>]
          [] obj.kind = "set" -> [tables EXCEPT ![t].Sets[obj.Name].Elements = << >>]
          [] obj.kind = "map" -> [tables EXCEPT ![t].Maps[obj.Name].Elements = << >>]

\* C23: a flush of a chain, set or map that is there removes all of its
\* rules or elements and leaves the chain, set or map with its name,
\* attributes and handle, every other object, the counters and the handle
\* counter as they are; a flush of one that is not there fails with
\* NotFound.
C23_FlushContainer ==
    [][ret'.call = "Run" =>
        \A k \in 1..Len(RunTx.operations), kind \in {"chain", "set", "map"} :
            FlushStep(k, kind) =>
                LET obj == RunTx.operations[k].obj
                    b == Before(Fake, RunTx, k)
                    a == After(Fake, RunTx, k)
                IN  IF ContainerExists(b, obj) /\ TargetExists(b, obj)
                    THEN /\ a.err = NoErr
                         /\ a.Tables = Emptied(b.Tables, obj)
                         /\ a.heap = b.heap
                         /\ a.nextHandle = b.nextHandle
                    ELSE a.err = NotFound]_vars

\* a rule is added to a chain with a rule and the chain is flushed by the
\* same transaction: the chain is there with its handle and has no rule
C23_Witness ==
    /\ ret = [call |-> "Run", err |-> NoErr]
    /\ Len(LastTransaction[1].operations) = 2
    /\ LastTransaction[1].operations[2] = Op(flushVerb, ChainObj("c1"))
    /\ Tables[DefaultTable].Chains["c1"].Rules = << >>
    /\ Tables[DefaultTable].Chains["c1"].Chain.Handle = PtrTo(2)
    /\ nextHandle = 4

\* C24: a flush of a table that is there removes all of its children and
\* leaves the table with its own attributes and the handle it had.
C24_FlushTable ==
    [][ret'.call = "Run" =>
        \A k \in 1..Len(RunTx.operations) :
            (/\ FlushStep(k, "table")
             /\ TargetExists(Before(Fake, RunTx, k), RunTx.operations[k].obj)) =>
                LET t == getTable(RunTx.operations[k].obj.Name)
                    b == Before(Fake, RunTx, k)
                    a == After(Fake, RunTx, k)
                IN  /\ a.err = NoErr
                    /\ a.Tables[t] = [Table |-> b.Tables[t].Table,
                                       Flowtables |-> EmptyMap, Chains |-> EmptyMap,
                                       Sets |-> EmptyMap, Maps |-> EmptyMap,
                                       Counters |-> EmptyMap]]_vars

(***************************************************************************)
(* The specification SpecByHandle: objects are added and deleted by a      *)
(* Handle, with a name or without one.                                     *)
(***************************************************************************)
\* the kinds of the objects that are deleted by handle, and for each its
\* map in the FakeTable and the field of the entry that holds the object
ByHandleKinds == {"flowtable", "chain", "set", "map"}

ByHandleObjs ==
    {FlowtableObj("f1"), ChainObj("c1"), ChainObj("c2"), SetObj("s1"), MapObj("m1")}

\* the handles a caller names
HandleArgs == {PtrTo(h) : h \in 1..3}

\* a delete of a table or of an object, by handle alone and by name and
\* handle
ByHandleDeletes ==
    {Op(deleteVerb, [TableObj("") EXCEPT !.Handle = h]) : h \in HandleArgs}
    \cup {Op(deleteVerb, [o EXCEPT !.Handle = h]) : o \in ByHandleObjs, h \in HandleArgs}
    \cup {Op(deleteVerb, [o EXCEPT !.Handle = h, !.Name = ""]) :
            o \in ByHandleObjs, h \in HandleArgs}

ByHandleTxs ==
    {Tx(<<Op(addVerb, TableObj(""))>>)}
    \cup {Tx(<<Op(addVerb, o)>>) : o \in ByHandleObjs}
    \cup {Tx(<<a>>) : a \in ByHandleDeletes}

NextByHandle == \E tx \in ByHandleTxs : Run(tx)

SpecByHandle == Init /\ [][NextByHandle]_vars

\* the objects of a kind of a FakeTable, by name
ObjectsOf(table, kind) ==
    CASE kind = "flowtable" ->
            [n \in DOMAIN table.Flowtables |-> table.Flowtables[n].Flowtable]
      [] kind = "chain" -> [n \in DOMAIN table.Chains |-> table.Chains[n].Chain]
      [] kind = "set" -> [n \in DOMAIN table.Sets |-> table.Sets[n].Set]
      [] kind = "map" -> [n \in DOMAIN table.Maps |-> table.Maps[n].Map]

\* the names of the objects of the kind of obj that have the handle of obj,
\* in the table of obj of a working state; for a table, the names of the
\* tables with that handle
Carriers(st, obj) ==
    IF obj.kind = "table"
    THEN {t \in DOMAIN st.Tables : st.Tables[t].Table.Handle = obj.Handle}
    ELSE IF getTable(obj.Table) \notin DOMAIN st.Tables THEN {}
    ELSE {n \in DOMAIN ObjectsOf(st.Tables[getTable(obj.Table)], obj.kind) :
            ObjectsOf(st.Tables[getTable(obj.Table)], obj.kind)[n].Handle = obj.Handle}

\* the forest without the object n of the kind in the table t, or without
\* the table n
Without(tables, kind, t, n) ==
    CASE kind = "table" -> MapDelete(tables, n)
      [] kind = "flowtable" -> [tables EXCEPT ![t].Flowtables = MapDelete(@, n)]
      [] kind = "chain" -> [tables EXCEPT ![t].Chains = MapDelete(@, n)]
      [] kind = "set" -> [tables EXCEPT ![t].Sets = MapDelete(@, n)]
      [] kind = "map" -> [tables EXCEPT ![t].Maps = MapDelete(@, n)]

\* C25: a delete of a table, chain, set, map or flowtable that names a
\* Handle, with or without a name, removes exactly the object of that kind
\* that has the handle, and fails with NotFound when no object of that kind
\* has it.
C25_DeleteByHandle ==
    [][ret'.call = "Run" =>
        \A k \in 1..Len(RunTx.operations) :
            (/\ Reached(Fake, RunTx, k)
             /\ RunTx.operations[k].verb = deleteVerb
             /\ RunTx.operations[k].obj.kind \in ByHandleKinds \cup {"table"}
             /\ RunTx.operations[k].obj.Handle # Nil) =>
                LET obj == RunTx.operations[k].obj
                    b == Before(Fake, RunTx, k)
                    a == After(Fake, RunTx, k)
                IN  IF Carriers(b, obj) = {}
                    THEN a.err = NotFound
                    ELSE /\ a.err = NoErr
                         /\ \E n \in Carriers(b, obj) :
                               a.Tables = Without(b.Tables, obj.kind,
                                                  getTable(IF obj.kind = "table"
                                                           THEN "" ELSE obj.Table), n)]_vars

(***************************************************************************)
(* The specification SpecConc: calls of several goroutines, interleaved.   *)
(* Run holds the mutex exclusively and Check holds it shared while they    *)
(* clone and apply; an operation of the apply pass writes fake.nextHandle  *)
(* and the FakeCounters in place when it is applied.  Dump reads under the *)
(* shared lock; ListCounters takes no lock.                                *)
(***************************************************************************)
\* the handles that the calls in progress may still take
PendingHandles ==
    LET left(t) == IF thr[t].pc = "apply"
                   THEN NumHandles(SubSeq(thr[t].tx.operations, thr[t].k,
                                          Len(thr[t].tx.operations)))
                   ELSE 0
    IN  left(1) + left(2)

\* the forests that are in use: the committed one and the working copies
LiveAddrs(tables, t) ==
    CounterAddrs(tables)
        \cup UNION {CounterAddrs(thr[u].Tables) : u \in Threads \ {t}}

\* the state of a call after fake.Lock()/fake.RLock(), the tx.err test and
\* the clone step of Fake.run
Started(call, tx) ==
    [pc |-> IF tx.err # NoErr \/ tx.operations = << >> THEN "return" ELSE "apply",
     call |-> call, tx |-> tx, k |-> 1,
     Tables |-> IF tx.err # NoErr THEN EmptyMap ELSE cloneTables(Tables),
     objs |-> tx.objs, err |-> tx.err]

\* Fake.Run up to the loop: Lock, LastTransaction = tx, clone
RunBegin(t, tx) ==
    /\ thr[t].pc = "idle"
    /\ mutex.writer = 0 /\ mutex.readers = {}
    /\ nextHandle + PendingHandles + NumHandles(tx.operations) <= MaxHandle
    /\ mutex' = [mutex EXCEPT !.writer = t]
    /\ LastTransaction' = <<tx>>
    /\ thr' = [thr EXCEPT ![t] = Started("Run", tx)]
    /\ UNCHANGED <<Tables, heap, nextHandle, ret, obs, published>>

\* Fake.Check up to the loop: RLock, clone
CheckBegin(t, tx) ==
    /\ thr[t].pc = "idle"
    /\ mutex.writer = 0
    /\ nextHandle + PendingHandles + NumHandles(tx.operations) <= MaxHandle
    /\ mutex' = [mutex EXCEPT !.readers = @ \cup {t}]
    /\ thr' = [thr EXCEPT ![t] = Started("Check", tx)]
    /\ UNCHANGED <<Tables, heap, nextHandle, LastTransaction, ret, obs, published>>

\* one iteration of the loop of Fake.run
ApplyStep(t) ==
    LET op == thr[t].tx.operations[thr[t].k]
        a == applyOp([Tables |-> thr[t].Tables, heap |-> heap,
                      nextHandle |-> nextHandle, objs |-> thr[t].objs,
                      err |-> NoErr], op)
    IN  /\ thr[t].pc = "apply"
        /\ heap' = a.heap
        /\ nextHandle' = a.nextHandle
        /\ thr' = [thr EXCEPT ![t] =
                     [@ EXCEPT !.Tables = a.Tables, !.objs = a.objs, !.err = a.err,
                               !.k = @ + 1,
                               !.pc = IF a.err # NoErr
                                         \/ thr[t].k = Len(thr[t].tx.operations)
                                      THEN "return" ELSE "apply"]]
        /\ UNCHANGED <<Tables, LastTransaction, ret, mutex, obs, published>>

\* the return of Fake.Run: the swap when there is no error, and Unlock
RunReturn(t) ==
    LET updatedTables == IF thr[t].err = NoErr THEN thr[t].Tables ELSE Tables
        live == [a \in (DOMAIN heap) \cap LiveAddrs(updatedTables, t) |-> heap[a]]
    IN  /\ thr[t].pc = "return" /\ thr[t].call = "Run"
        /\ Tables' = updatedTables
        /\ heap' = live
        /\ published' = IF thr[t].err = NoErr
                        THEN published \cup {Snapshot(updatedTables, live)}
                        ELSE published
        /\ mutex' = [mutex EXCEPT !.writer = 0]
        /\ ret' = [call |-> "Run", err |-> thr[t].err]
        /\ thr' = [thr EXCEPT ![t] = Idle]
        /\ UNCHANGED <<nextHandle, LastTransaction, obs>>

\* the return of Fake.Check: RUnlock
CheckReturn(t) ==
    /\ thr[t].pc = "return" /\ thr[t].call = "Check"
    /\ heap' = [a \in (DOMAIN heap) \cap LiveAddrs(Tables, t) |-> heap[a]]
    /\ mutex' = [mutex EXCEPT !.readers = @ \ {t}]
    /\ ret' = [call |-> "Check", err |-> thr[t].err]
    /\ thr' = [thr EXCEPT ![t] = Idle]
    /\ UNCHANGED <<Tables, nextHandle, LastTransaction, obs, published>>

\* the orders in which a range over the keys of a map may run
RangeOrders(m) ==
    {s \in [1..Cardinality(DOMAIN m) -> DOMAIN m] :
        \A i, j \in DOMAIN s : s[i] = s[j] => i = j}

\* the slices that Fake.ListCounters may return: make gives the slice as
\* many nil entries as fake.Table has counters, and the range over the map
\* appends a pointer to a copy of each Counter after them, in an order of
\* the map; a nil fake.Table is dereferenced and the call panics
ListCountersOf(tables, h) ==
    IF DefaultTable \notin DOMAIN tables
    THEN {[panic |-> TRUE, err |-> Panic, counters |-> << >>]}
    ELSE LET c == tables[DefaultTable].Counters
             n == Cardinality(DOMAIN c)
         IN  {[panic |-> FALSE, err |-> NoErr,
               counters |-> [i \in 1..n |-> Nil]
                            \o [i \in 1..n |-> PtrTo(h[c[order[i]]].Counter)]] :
                 order \in RangeOrders(c)}

\* Fake.ListCounters: no lock is taken
ListCounters(t) ==
    /\ thr[t].pc = "idle"
    /\ \E result \in ListCountersOf(Tables, heap) :
           obs' = [call |-> "ListCounters", result |-> result]
    /\ UNCHANGED <<Tables, heap, nextHandle, LastTransaction, ret, mutex, thr,
                   published>>

\* Fake.Dump: RLock, the rendering of fake.Tables, RUnlock
Dump(t) ==
    /\ thr[t].pc = "idle"
    /\ mutex.writer = 0
    /\ obs' = [call |-> "Dump", result |-> Snapshot(Tables, heap)]
    /\ UNCHANGED <<Tables, heap, nextHandle, LastTransaction, ret, mutex, thr,
                   published>>

\* fake.Table: the engine's table of the committed forest, or nil
FakeTableOf(tables) ==
    IF DefaultTable \in DOMAIN tables THEN PtrTo(tables[DefaultTable]) ELSE Nil

\* the sequences that hold every element of a set once: the orders a range
\* over a Go map may take
Orders(S) ==
    {f \in [1..Cardinality(S) -> S] : \A i, j \in 1..Cardinality(S) : f[i] = f[j] => i = j}

\* Fake.List on the committed forest: the names of the objects of a type
ListOf(tables, objectType) ==
    LET table == FakeTableOf(tables)[1]
    IN  IF FakeTableOf(tables) = Nil THEN [err |-> NotFound, value |-> {}]
        ELSE CASE objectType \in {"flowtable", "flowtables"} ->
                    [err |-> NoErr, value |-> DOMAIN table.Flowtables]
               [] objectType \in {"chain", "chains"} ->
                    [err |-> NoErr, value |-> DOMAIN table.Chains]
               [] objectType \in {"set", "sets"} ->
                    [err |-> NoErr, value |-> DOMAIN table.Sets]
               [] objectType \in {"map", "maps"} ->
                    [err |-> NoErr, value |-> DOMAIN table.Maps]
               [] objectType \in {"counter", "counters"} ->
                    [err |-> NoErr, value |-> DOMAIN table.Counters]
               [] OTHER -> [err |-> OtherErr, value |-> {}]

\* Fake.ListRules on the committed forest: the results it may return, one
\* for a named chain and one for every order of the chains for ""
ListRulesOf(tables, chain) ==
    LET table == FakeTableOf(tables)[1]
    IN  IF FakeTableOf(tables) = Nil THEN {[err |-> NotFound, value |-> << >>]}
        ELSE IF chain = ""
        THEN {[err |-> NoErr,
               value |-> Flatten([i \in 1..Len(order) |-> table.Chains[order[i]].Rules])] :
                 order \in Orders(DOMAIN table.Chains)}
        ELSE IF chain \notin DOMAIN table.Chains
        THEN {[err |-> NotFound, value |-> << >>]}
        ELSE {[err |-> NoErr, value |-> table.Chains[chain].Rules]}

\* Fake.ListElements on the committed forest
ListElementsOf(tables, objectType, name) ==
    LET table == FakeTableOf(tables)[1]
    IN  IF FakeTableOf(tables) = Nil THEN [err |-> NotFound, value |-> << >>]
        ELSE IF objectType = "set" /\ name \in DOMAIN table.Sets
        THEN [err |-> NoErr, value |-> table.Sets[name].Elements]
        ELSE IF objectType = "map" /\ name \in DOMAIN table.Maps
        THEN [err |-> NoErr, value |-> table.Maps[name].Elements]
        ELSE [err |-> NotFound, value |-> << >>]

\* Fake.List: RLock, the read of fake.Table, RUnlock
List(t, objectType) ==
    /\ thr[t].pc = "idle"
    /\ mutex.writer = 0
    /\ obs' = [call |-> "List", args |-> <<objectType>>,
               result |-> ListOf(Tables, objectType)]
    /\ UNCHANGED <<Tables, heap, nextHandle, LastTransaction, ret, mutex, thr,
                   published>>

\* Fake.ListRules: RLock, the read of fake.Table, RUnlock
ListRules(t, chain) ==
    /\ thr[t].pc = "idle"
    /\ mutex.writer = 0
    /\ \E r \in ListRulesOf(Tables, chain) :
          obs' = [call |-> "ListRules", args |-> <<chain>>, result |-> r]
    /\ UNCHANGED <<Tables, heap, nextHandle, LastTransaction, ret, mutex, thr,
                   published>>

\* Fake.ListElements: RLock, the read of fake.Table, RUnlock
ListElements(t, objectType, name) ==
    /\ thr[t].pc = "idle"
    /\ mutex.writer = 0
    /\ obs' = [call |-> "ListElements", args |-> <<objectType, name>>,
               result |-> ListElementsOf(Tables, objectType, name)]
    /\ UNCHANGED <<Tables, heap, nextHandle, LastTransaction, ret, mutex, thr,
                   published>>

\* the transactions of SpecConc: a table with a counter, a reset of the
\* counter, and a reset followed by an operation that fails
ConcTxs ==
    {Tx(<<Op(addVerb, TableObj("")), Op(addVerb, CounterObj("k1", 2, PtrTo(7)))>>),
     Tx(<<Op(resetVerb, CounterObj("k1", 1, Nil))>>),
     Tx(<<Op(resetVerb, CounterObj("k1", 1, Nil)), Op(deleteVerb, ChainObj("c1"))>>)}

NextConc ==
    \E t \in Threads :
        \/ \E tx \in ConcTxs : RunBegin(t, tx)
        \/ \E tx \in ConcTxs : CheckBegin(t, tx)
        \/ ApplyStep(t)
        \/ RunReturn(t)
        \/ CheckReturn(t)
        \/ ListCounters(t)
        \/ Dump(t)

SpecConc == Init /\ [][NextConc]_vars

\* what a read call may return when it reads a given committed state
ReadOf(call, snapshot) ==
    IF call = "ListCounters" THEN ListCountersOf(snapshot[1], snapshot[2])
    ELSE {snapshot}

\* the states a read may be computed from: the committed states - the one
\* before any transaction and the one after each whole successful Run - and
\* the state a Run in progress has reached when all its operations have been
\* applied without error
CommittedStates ==
    published \cup {Snapshot(thr[t].Tables, heap) :
                        t \in {u \in Threads : /\ thr[u].call = "Run"
                                                /\ thr[u].pc = "return"
                                                /\ thr[u].err = NoErr}}

\* C4: every read call returns a result computed from a committed state -
\* the state before or after a whole successful transaction - and never
\* one that shows a part of a transaction or an effect of a transaction
\* that fails.
C4_NoPartialObservation ==
    \E snapshot \in CommittedStates : obs.result \in ReadOf(obs.call, snapshot)

(***************************************************************************)
(* The specification SpecQuery: one caller adds and deletes the table, a   *)
(* chain, a set and a map, and queries the engine in between.              *)
(***************************************************************************)
QueryTxs ==
    {Tx(<<Op(v, TableObj(""))>>) : v \in {addVerb, deleteVerb}}
    \cup {Tx(<<Op(addVerb, o)>>) :
            o \in {ChainObj("c1"), ChainObj("c2"), SetObj("s1"), MapObj("m1"),
                   RuleObj("c1", <<Word("a")>>, Nil, Nil),
                   RuleObj("c2", <<Word("b")>>, Nil, Nil),
                   ElementObj("s1", "", <<"x">>, << >>, Nil)}}

\* the arguments of the queries
ObjectTypes == {"chains", "sets", "maps", "counter", "rules"}
ChainArgs == {"", "c1", "c2"}
ElementArgs == {<<"set", "s1">>, <<"map", "m1">>, <<"set", "m1">>, <<"rule", "s1">>}

Queries(t) ==
    \/ \E objectType \in ObjectTypes : List(t, objectType)
    \/ \E chain \in ChainArgs : ListRules(t, chain)
    \/ \E a \in ElementArgs : ListElements(t, a[1], a[2])
    \/ ListCounters(t)

NextQuery ==
    \/ \E tx \in QueryTxs : Run(tx)
    \/ Queries(1)

SpecQuery == Init /\ [][NextQuery]_vars

\* a query has returned: the calls that write obs are the queries and Dump
QueryReturns == obs' # obs

\* C26: List, ListRules, ListElements and ListCounters return NotFound and
\* do not panic when the engine's table is not in the committed state;
\* ListRules of a named chain that is not there and ListElements of a set
\* or map that is not there return NotFound.
C26_QueriesOnMissing ==
    [][QueryReturns =>
        LET present == DefaultTable \in DOMAIN Tables
            table == Tables[DefaultTable]
        IN  /\ ~present => obs'.result.err = NotFound
            /\ (/\ obs'.call = "ListRules"
                /\ obs'.args[1] # ""
                /\ present
                /\ obs'.args[1] \notin DOMAIN table.Chains) => obs'.result.err = NotFound
            /\ (/\ obs'.call = "ListElements"
                /\ present
                /\ ~(obs'.args[1] = "set" /\ obs'.args[2] \in DOMAIN table.Sets)
                /\ ~(obs'.args[1] = "map" /\ obs'.args[2] \in DOMAIN table.Maps)) =>
                    obs'.result.err = NotFound]_vars

(***************************************************************************)
(* The specification SpecReads: two goroutines, of which each runs         *)
(* transactions operation by operation and queries the engine.             *)
(***************************************************************************)
ReadTxs ==
    {Tx(<<Op(addVerb, TableObj("")), Op(addVerb, ChainObj("c1"))>>),
     Tx(<<Op(addVerb, CounterObj("k1", 1, PtrTo(7)))>>),
     Tx(<<Op(deleteVerb, TableObj(""))>>)}

NextReads ==
    \E t \in Threads :
        \/ \E tx \in ReadTxs : RunBegin(t, tx)
        \/ ApplyStep(t)
        \/ RunReturn(t)
        \/ Queries(t)
        \/ Dump(t)

SpecReads == Init /\ [][NextReads]_vars

\* C27: List, ListRules, ListElements, ListCounters and Dump read the
\* committed forest under the shared lock: none of them reads while a Run
\* holds the lock exclusively.
C27_ReadsHoldSharedLock ==
    [][QueryReturns => mutex.writer = 0]_vars

\* goroutine t executes an iteration of the loop of Fake.run inside Check,
\* where it holds the lock for reading only
CheckApplies(t) ==
    thr[t].call = "Check" /\ thr[t].pc = "apply" /\ thr'[t] # thr[t]

\* C29: an operation that holds only shared access - Check and the read
\* calls - writes no field of the Fake: not the committed tables, not an
\* entity that they hold, not the handle counter.
C29_SharedAccessWritesNothing ==
    [][((\E t \in Threads : CheckApplies(t)) \/ obs' # obs) =>
           /\ Tables' = Tables
           /\ Reachable(heap', Tables') = Reachable(heap, Tables)
           /\ nextHandle' = nextHandle]_vars

(***************************************************************************)
(* The specification SpecSerial: two goroutines call Run and nothing else. *)
(***************************************************************************)
SerialTxs ==
    ConcTxs \cup {Tx(<<Op(addVerb, ChainObj("c1"))>>),
                  Tx(<<Op(addVerb, ChainObj("c1")), Op(createVerb, TableObj(""))>>)}

NextSerial ==
    \E t \in Threads :
        \/ \E tx \in SerialTxs : RunBegin(t, tx)
        \/ ApplyStep(t)
        \/ RunReturn(t)

SpecSerial == Init /\ [][NextSerial]_vars

\* goroutine t returns from Run
RunReturns(t) ==
    thr[t].call = "Run" /\ thr[t].pc = "return" /\ thr'[t].pc = "idle"

\* the engine as it was when the Run of goroutine t took the lock: the
\* committed tables, and the handle counter without the handles that the
\* operations applied so far have taken
AtLock(t) ==
    [Tables |-> Tables, heap |-> Reachable(heap, Tables),
     nextHandle |-> nextHandle
                    - NumHandles(SubSeq(thr[t].tx.operations, 1, thr[t].k - 1))]

\* the Run of goroutine t returns what the transaction gives when it is
\* executed in one piece on the engine as it was at the lock
AsOneAtATime(t) ==
    LET r == run(AtLock(t), thr[t].tx)
    IN  /\ ret'.err = r.err
        /\ nextHandle' = r.nextHandle
        /\ r.err = NoErr =>
               Snapshot(Tables', heap') = Snapshot(r.Tables, r.heap)
        /\ r.err # NoErr => Tables' = Tables

\* every Run returns as the one-at-a-time execution does
RunsAsOneAtATime ==
    [][\A t \in Threads : RunReturns(t) => AsOneAtATime(t)]_vars

\* C30: concurrent Run calls leave the committed state and the handles
\* that one-at-a-time execution in the order of the lock leaves, and each
\* transaction is applied completely or not at all: between two Runs the
\* committed state is the initial one or the one that a whole successful
\* transaction has produced.
C30_RunsSerializable ==
    /\ RunsAsOneAtATime
    /\ [](mutex.writer = 0 => Snapshot(Tables, heap) \in published)

(***************************************************************************)
(* The specification SpecAdd: objects of every kind are added, with one    *)
(* comment and with another, and a chain, a set and a map get children.    *)
(***************************************************************************)
WithComment(obj) == [obj EXCEPT !.Comment = PtrTo("foo")]

AddObjs ==
    {TableObj(""), ChainObj("c1"), SetObj("s1"), MapObj("m1"),
     WithComment(TableObj("")), WithComment(ChainObj("c1")),
     WithComment(SetObj("s1")), WithComment(MapObj("m1")),
     FlowtableObj("f1"), [FlowtableObj("f1") EXCEPT !.Handle = PtrTo(4)],
     CounterObj("k1", 1, PtrTo(7)), CounterObj("k1", 2, PtrTo(9)),
     RuleObj("c1", <<Word("a")>>, Nil, Nil),
     ElementObj("s1", "", <<"x">>, << >>, Nil),
     ElementObj("", "m1", <<"x">>, <<<<"y">>>>, Nil)}

AddTxs ==
    {Tx(<<Op(addVerb, o)>>) : o \in AddObjs}
    \cup {Tx(<<Op(deleteVerb, TableObj(""))>>)}

NextAdd == \E tx \in AddTxs : Run(tx) \/ Check(tx)

SpecAdd == Init /\ [][NextAdd]_vars

\* the kinds of object that an add creates under a name
NamedKinds == {"table", "flowtable", "chain", "set", "map", "counter"}

\* C31: an add of a table, flowtable, chain, set, map or counter that is
\* there succeeds and leaves the working copy as it is - the object with
\* its attributes, handle and children, and every other object - also when
\* the attributes of the submitted object differ from the stored ones.
C31_AddExistingIsNoOp ==
    [][ret'.call = "Run" =>
        \A k \in 1..Len(RunTx.operations) :
            LET obj == RunTx.operations[k].obj
                b == Before(Fake, RunTx, k)
                a == After(Fake, RunTx, k)
            IN  (/\ KindStep(k, addVerb)
                 /\ obj.kind \in NamedKinds
                 /\ TargetExists(b, obj)) =>
                    /\ a.err = NoErr
                    /\ a.Tables = b.Tables
                    /\ a.heap = b.heap]_vars

\* a chain with a comment has been added over the chain c1, which has no
\* comment and holds a rule
C31_Witness ==
    /\ ret = [call |-> "Run", err |-> NoErr]
    /\ LastTransaction # Nil
    /\ LastTransaction[1].operations = <<Op(addVerb, WithComment(ChainObj("c1")))>>
    /\ DefaultTable \in DOMAIN Tables
    /\ "c1" \in DOMAIN Tables[DefaultTable].Chains
    /\ Tables[DefaultTable].Chains["c1"].Chain.Comment = Nil
    /\ Len(Tables[DefaultTable].Chains["c1"].Rules) = 1

(***************************************************************************)
(* The specification SpecFrame: a few transactions set up a table with two *)
(* chains, with a set and a map, or with a second table and a counter;     *)
(* single operations then add children and further objects and flush,      *)
(* reset, replace and delete them.                                         *)
(***************************************************************************)
FrameSetups ==
    {Tx(<<Op(addVerb, TableObj("")), Op(addVerb, ChainObj("c1")),
          Op(addVerb, ChainObj("c2"))>>),
     Tx(<<Op(addVerb, TableObj("")), Op(addVerb, SetObj("s1")),
          Op(addVerb, MapObj("m1"))>>),
     Tx(<<Op(addVerb, TableObj("")), Op(addVerb, TableObj("t0")),
          Op(addVerb, CounterObj("k1", 1, PtrTo(7)))>>)}

FrameAdds ==
    {RuleObj("c1", <<Word("a")>>, Nil, Nil), RuleObj("c2", <<Word("a")>>, Nil, Nil),
     ElementObj("s1", "", <<"x">>, << >>, Nil),
     ElementObj("", "m1", <<"x">>, <<<<"y">>>>, Nil),
     CounterObj("k2", 2, PtrTo(7)), FlowtableObj("f1"),
     InTable(ChainObj("c1"), "t0")}

FrameOps ==
    {Op(addVerb, o) : o \in FrameAdds}
    \cup {Op(deleteVerb, o) :
            o \in {TableObj(""), TableObj("t0"), ChainObj("c1"), SetObj("s1"),
                   MapObj("m1"), FlowtableObj("f1"), CounterObj("k1", 1, PtrTo(7)),
                   ElementObj("s1", "", <<"x">>, << >>, Nil),
                   ElementObj("", "m1", <<"x">>, << >>, Nil)}}
    \cup {Op(flushVerb, o) :
            o \in {TableObj(""), ChainObj("c1"), SetObj("s1"), MapObj("m1")}}
    \cup {Op(resetVerb, CounterObj("k1", 1, PtrTo(7)))}
    \cup {Op(v, RuleObj("c1", <<Word("b")>>, Nil, PtrTo(h))) :
            v \in {deleteVerb, replaceVerb}, h \in {4, 5}}

FrameTxs == FrameSetups \cup {Tx(<<a>>) : a \in FrameOps}

NextFrame == \E tx \in FrameTxs : Run(tx)

SpecFrame == Init /\ [][NextFrame]_vars

\* a forest without the target of an operation: without the table, chain,
\* set, map, flowtable or counter that it names, without the rules of the
\* chain of its rule, without the elements of the set or map of its element
FrameMask(tables, obj) ==
    LET t == getTable(IF obj.kind = "table" THEN obj.Name ELSE obj.Table)
    IN  IF t \notin DOMAIN tables THEN tables
        ELSE CASE obj.kind = "rule" ->
                    IF obj.Chain \in DOMAIN tables[t].Chains
                    THEN [tables EXCEPT ![t].Chains[obj.Chain].Rules = << >>]
                    ELSE tables
               [] obj.kind = "element" /\ obj.Set # "" ->
                    IF obj.Set \in DOMAIN tables[t].Sets
                    THEN [tables EXCEPT ![t].Sets[obj.Set].Elements = << >>]
                    ELSE tables
               [] obj.kind = "element" /\ obj.Set = "" ->
                    IF obj.Map \in DOMAIN tables[t].Maps
                    THEN [tables EXCEPT ![t].Maps[obj.Map].Elements = << >>]
                    ELSE tables
               [] obj.kind = "counter" ->
                    [tables EXCEPT ![t].Counters = MapDelete(@, obj.Name)]
               [] obj.kind = "table" -> MapDelete(tables, t)
               [] OTHER -> Without(tables, obj.kind, t, obj.Name)

\* C32: an operation changes only its target: whatever is not the object
\* that it names, the rules of the chain of its rule or the elements of
\* the set or map of its element, is after the operation as it was before
\* it - the tables, chains with their rules, sets and maps with their
\* elements, flowtables, and counters with their values.
C32_OperationFrame ==
    [][ret'.call = "Run" =>
        \A k \in 1..Len(RunTx.operations) :
            LET obj == RunTx.operations[k].obj
                b == Before(Fake, RunTx, k)
                a == After(Fake, RunTx, k)
            IN  (Reached(Fake, RunTx, k) /\ a.err = NoErr) =>
                    /\ FrameMask(a.Tables, obj) = FrameMask(b.Tables, obj)
                    /\ \A addr \in CounterAddrs(FrameMask(b.Tables, obj)) :
                          a.heap[addr] = b.heap[addr]]_vars

\* the counter k1 has been reset next to the counter k2, and the second
\* table is there
C32_Witness ==
    /\ ret = [call |-> "Run", err |-> NoErr]
    /\ LastTransaction = <<Tx(<<Op(resetVerb, CounterObj("k1", 1, PtrTo(7)))>>)>>
    /\ DOMAIN Tables = {"t0", "t1"}
    /\ DOMAIN Tables[DefaultTable].Counters = {"k1", "k2"}
    /\ heap[Tables[DefaultTable].Counters["k1"]].Counter.Packets = PtrTo(0)
    /\ heap[Tables[DefaultTable].Counters["k2"]].Counter.Packets = PtrTo(7)

\* C33: in every committed state, every chain that a stored rule body or a
\* stored map element's value jumps to, and every set, map or flowtable
\* that a stored rule body names with "@", is in the same table.
C33_NoDanglingReferences ==
    \A t \in DOMAIN Tables :
        /\ \A c \in DOMAIN Tables[t].Chains :
              \A i \in 1..Len(Tables[t].Chains[c].Rules) :
                  RuleRefsPresent(Tables[t].Chains[c].Rules[i].Rule, Tables[t])
        /\ \A m \in DOMAIN Tables[t].Maps :
              \A i \in 1..Len(Tables[t].Maps[m].Elements) :
                  ElementRefsPresent(Tables[t].Maps[m].Elements[i], Tables[t])

(***************************************************************************)
(* The specification SpecVerbs: every verb that the validator accepts for  *)
(* a kind of object is submitted with an object of that kind.              *)
(***************************************************************************)
\* the verbs that validate accepts for a kind of object, as the table of
\* TestObjects lists them: a case with an output is accepted, a case with
\* the error "not implemented" is not
AcceptedVerbs(kind) ==
    CASE kind = "table" -> {addVerb, createVerb, flushVerb, deleteVerb}
      [] kind = "flowtable" -> {addVerb, createVerb, deleteVerb}
      [] kind = "chain" -> {addVerb, createVerb, flushVerb, deleteVerb}
      [] kind = "rule" -> {addVerb, insertVerb, replaceVerb, deleteVerb}
      [] kind = "set" -> {addVerb, createVerb, flushVerb, deleteVerb}
      [] kind = "map" -> {addVerb, createVerb, flushVerb, deleteVerb}
      [] kind = "element" -> {addVerb, createVerb, deleteVerb}

VerbObjs ==
    {TableObj(""), FlowtableObj("f1"), ChainObj("c1"), SetObj("s1"), MapObj("m1"),
     ElementObj("s1", "", <<"x">>, << >>, Nil),
     ElementObj("", "m1", <<"x">>, <<<<"y">>>>, Nil),
     RuleObj("c1", <<Word("a")>>, Nil, PtrTo(3))}

\* a rule is added and inserted without a handle
VerbOps ==
    {Op(v, IF o.kind = "rule" /\ v \in {addVerb, insertVerb}
           THEN [o EXCEPT !.Handle = Nil] ELSE o) :
        o \in VerbObjs, v \in {addVerb, createVerb, insertVerb, replaceVerb,
                               flushVerb, deleteVerb}}

VerbTxs == {Tx(<<a>>) : a \in {x \in VerbOps : x.verb \in AcceptedVerbs(x.obj.kind)}}

NextVerbs == \E tx \in VerbTxs : Run(tx) \/ Check(tx)

SpecVerbs == Init /\ [][NextVerbs]_vars

\* C34: Run and Check never return the error of an unhandled operation for
\* a transaction whose operations the validator has accepted.
C34_AcceptedVerbsAreHandled ==
    ret.err # OtherErr

(***************************************************************************)
(* The specification SpecCompose: transactions of one, two and three       *)
(* operations on a table, a chain with rules and a counter.                *)
(***************************************************************************)
ComposeOps ==
    {Op(addVerb, TableObj("")), Op(flushVerb, TableObj("")),
     Op(addVerb, ChainObj("c1")),
     Op(addVerb, RuleObj("c1", <<Word("a")>>, Nil, Nil)),
     Op(insertVerb, RuleObj("c1", <<Word("b")>>, Nil, Nil)),
     Op(addVerb, CounterObj("k1", 1, PtrTo(7))),
     Op(deleteVerb, CounterObj("k1", 1, PtrTo(7)))}

ComposeTxs ==
    (TxsOver(ComposeOps) \ {PoisonedTx})
    \cup {Tx(<<Op(addVerb, TableObj("")), Op(addVerb, ChainObj("c1")),
               Op(addVerb, RuleObj("c1", <<Word("a")>>, Nil, Nil))>>),
          Tx(<<Op(addVerb, CounterObj("k1", 1, PtrTo(7))),
               Op(deleteVerb, CounterObj("k1", 1, PtrTo(7))),
               Op(addVerb, CounterObj("k1", 1, PtrTo(7)))>>)}

NextCompose == \E tx \in ComposeTxs : Run(tx)

SpecCompose == Init /\ [][NextCompose]_vars

\* the operations run one by one, each as a transaction of its own, on the
\* engine that the one before has left: Fake.Run commits the tables of a
\* transaction without error, and the caller's Counter objects keep the
\* Handle that an add has written to them
RECURSIVE RunSingly(_, _, _)
RunSingly(fake, ops, objs) ==
    IF ops = << >>
    THEN [Tables |-> fake.Tables, heap |-> fake.heap,
          nextHandle |-> fake.nextHandle, err |-> NoErr]
    ELSE LET r == run(fake, [operations |-> <<Head(ops)>>, err |-> NoErr,
                             objs |-> objs])
         IN  IF r.err # NoErr
             THEN [Tables |-> fake.Tables, heap |-> fake.heap,
                   nextHandle |-> r.nextHandle, err |-> r.err]
             ELSE RunSingly([Tables |-> r.Tables,
                             heap |-> Reachable(r.heap, r.Tables),
                             nextHandle |-> r.nextHandle], Tail(ops), r.objs)

\* a forest with the FakeCounters in the place of their addresses
Deref(tables, h) ==
    [t \in DOMAIN tables |->
        [tables[t] EXCEPT !.Counters = [n \in DOMAIN @ |-> h[@[n]]]]]

\* C35: when the Run of a transaction succeeds, the Runs of its operations
\* one by one, each in a transaction of its own, succeed from the same
\* state and leave the same committed state, with the same handles, and the
\* same handle counter.
C35_SequentialComposition ==
    [][(ret'.call = "Run" /\ ret'.err = NoErr) =>
        LET singly == RunSingly(Fake, RunTx.operations, RunTx.objs)
        IN  /\ singly.err = NoErr
            /\ Deref(singly.Tables, singly.heap) = Deref(Tables', heap')
            /\ singly.nextHandle = nextHandle']_vars

\* a transaction of three operations has been committed that adds a
\* counter, deletes it by the handle that the add has written, and adds it
\* again
C35_Witness ==
    /\ ret = [call |-> "Run", err |-> NoErr]
    /\ LastTransaction # Nil
    /\ Len(LastTransaction[1].operations) = 3
    /\ LastTransaction[1].operations[2].verb = deleteVerb
    /\ DefaultTable \in DOMAIN Tables
    /\ "k1" \in DOMAIN Tables[DefaultTable].Counters
    /\ heap[Tables[DefaultTable].Counters["k1"]].Counter.Handle = PtrTo(nextHandle)

\* the operation leaves a working state as it is, but for the packets and
\* bytes of the counter that it names, which are 0
ResetOnly(b, a, obj) ==
    /\ a.err = NoErr
    /\ a.Tables = b.Tables
    /\ DOMAIN a.heap = DOMAIN b.heap
    /\ \A addr \in DOMAIN b.heap :
          a.heap[addr].Counter =
              IF addr = b.Tables[getTable(obj.Table)].Counters[obj.Name]
              THEN [b.heap[addr].Counter EXCEPT !.Packets = PtrTo(0),
                                                !.Bytes = PtrTo(0)]
              ELSE b.heap[addr].Counter

\* a reset of a counter that is there zeroes its packets and bytes and
\* nothing else; a reset of a counter that is not there fails with NotFound
ResetSteps ==
    [][ret'.call = "Run" =>
        \A k \in 1..Len(RunTx.operations) :
            KindStep(k, resetVerb) =>
                LET obj == RunTx.operations[k].obj
                    b == Before(Fake, RunTx, k)
                    a == After(Fake, RunTx, k)
                IN  IF TargetExists(b, obj) THEN ResetOnly(b, a, obj)
                    ELSE a.err = NotFound]_vars

\* C36: a reset of a counter that is there sets its packets and bytes to 0
\* and leaves its name, comment and handle and every other object as they
\* are; a reset of a counter that is not there fails with NotFound; and
\* the reset reaches the committed state only when its transaction
\* commits: a Run that returns an error leaves the committed counters as
\* they were.
C36_CounterReset ==
    /\ ResetSteps
    /\ [][(ret'.call = "Run" /\ ret'.err # NoErr) =>
            Deref(Tables', heap') = Deref(Tables, heap)]_vars

(***************************************************************************)
(* The specification SpecCounters: two counters are added, and deleted by  *)
(* name and by a Handle that the caller has set in the Counter object.     *)
(***************************************************************************)
\* a transaction that deletes with a Counter object of the given name and
\* Handle
DeleteCounter(name, handle) ==
    [Tx(<<Op(deleteVerb, CounterObj(name, 2, Nil))>>) EXCEPT !.objs[2] = handle]

CounterTxs ==
    {Tx(<<Op(addVerb, TableObj(""))>>),
     Tx(<<Op(addVerb, CounterObj("k1", 1, PtrTo(7)))>>),
     Tx(<<Op(addVerb, CounterObj("k2", 1, PtrTo(9)))>>)}
    \cup {DeleteCounter(name, handle) :
            name \in {"k1", "k2"}, handle \in {Nil} \cup {PtrTo(h) : h \in 1..4}}

NextCounters == \E tx \in CounterTxs : Run(tx)

SpecCounters == Init /\ [][NextCounters]_vars

\* the names of the counters of a table of a working state that have the
\* given handle
CounterCarriers(st, t, handle) ==
    {n \in DOMAIN st.Tables[t].Counters :
        st.heap[st.Tables[t].Counters[n]].Counter.Handle = handle}

\* a working state is another one without the counter n of the table t
CounterGone(b, a, t, n) ==
    /\ a.err = NoErr
    /\ a.Tables = [b.Tables EXCEPT ![t].Counters = MapDelete(@, n)]
    /\ a.heap = b.heap

\* C37: a delete of a counter by Handle removes exactly the counter of the
\* table that has the handle and fails with NotFound when none has it; a
\* delete by name removes exactly the named counter and fails with
\* NotFound when it is not there; every other counter stays as it is.
C37_CounterDelete ==
    [][(/\ ret'.call = "Run"
        /\ LastTransaction'[1].operations[1].verb = deleteVerb
        /\ DefaultTable \in DOMAIN Tables) =>
        LET tx == LastTransaction'[1]
            obj == tx.operations[1].obj
            handle == tx.objs[obj.ptr]
            t == getTable(obj.Table)
            b == Before(Fake, tx, 1)
            a == After(Fake, tx, 1)
        IN  /\ ret'.err = a.err
            /\ IF handle # Nil
               THEN IF CounterCarriers(b, t, handle) = {}
                    THEN a.err = NotFound
                    ELSE /\ Cardinality(CounterCarriers(b, t, handle)) = 1
                         /\ \A n \in CounterCarriers(b, t, handle) :
                               CounterGone(b, a, t, n)
               ELSE IF obj.Name \in DOMAIN b.Tables[t].Counters
                    THEN CounterGone(b, a, t, obj.Name)
                    ELSE a.err = NotFound
            /\ a.err = NoErr => Tables' = a.Tables]_vars

\* a delete with a Counter object that has the name k1 and the handle of
\* k2 has removed k2
C37_Witness ==
    /\ ret = [call |-> "Run", err |-> NoErr]
    /\ LastTransaction # Nil
    /\ LastTransaction[1].operations = <<Op(deleteVerb, CounterObj("k1", 2, Nil))>>
    /\ LastTransaction[1].objs[2] # Nil
    /\ DefaultTable \in DOMAIN Tables
    /\ DOMAIN Tables[DefaultTable].Counters = {"k1"}

(***************************************************************************)
(* The specification SpecParse: texts of up to three lines are given to    *)
(* ParseDump.  A line is a record as Dump writes it; a blank line has the  *)
(* field blank, a line that the parser of its kind rejects has the field   *)
(* malformed.                                                              *)
(***************************************************************************)
BlankLine == [blank |-> TRUE]

\* the kinds of object of the switch of ParseDump
ParsedKinds ==
    {"table", "flowtable", "chain", "rule", "map", "set", "element", "counter"}

\* the error of a line in the loop of ParseDump, in the order of its
\* tests: the regular expression, the table, the kind, the parser of the
\* kind
lineError(line) ==
    IF line.verb # addVerb THEN "could not parse"
    ELSE IF line.table # DefaultTable THEN "wrong table name"
    ELSE IF line.kind \notin ParsedKinds THEN "unknown object"
    ELSE IF "malformed" \in DOMAIN line THEN "parse"
    ELSE NoErr

\* the lines that the loop of ParseDump does not skip
IsLine(line) == "blank" \notin DOMAIN line

\* the index of the line at which the loop of ParseDump returns an error,
\* 0 when it reaches the end
RECURSIVE parseStops(_, _)
parseStops(data, i) ==
    IF i > Len(data) THEN 0
    ELSE IF IsLine(data[i]) /\ lineError(data[i]) # NoErr THEN i
    ELSE parseStops(data, i + 1)

\* the transaction that ParseDump builds from a text without a bad line
parsedTx(data) ==
    LET lines == SelectSeq(data, IsLine)
    IN  Tx([i \in 1..Len(lines) |-> Op(addVerb, parse(lines[i]))])

ParseDump_RunsUpToError(data) ==
    LET stop == parseStops(data, 1)
        tx == parsedTx(IF stop = 0 THEN data ELSE SubSeq(data, 1, stop - 1))
        r == run(Fake, tx)
        updatedTables == IF r.err = NoErr THEN r.Tables ELSE Tables
    IN  /\ nextHandle + NumHandles(tx.operations) <= MaxHandle
        /\ LastTransaction' = <<[tx EXCEPT !.objs = r.objs]>>
        /\ Tables' = updatedTables
        /\ heap' = Reachable(r.heap, updatedTables)
        /\ nextHandle' = r.nextHandle
        /\ ret' = [call |-> "ParseDump", args |-> data,
                   err |-> IF stop # 0 THEN lineError(data[stop]) ELSE r.err,
                   line |-> stop]
        /\ UNCHANGED concVars

\* Fake.ParseDump: an error of a line is returned with the number of the
\* line before anything is run; else the transaction of the lines is run
\* by Fake.Run
ParseDump(data) ==
    LET stop == parseStops(data, 1)
        tx == parsedTx(data)
        r == run(Fake, tx)
        updatedTables == IF r.err = NoErr THEN r.Tables ELSE Tables
    IN  IF stop # 0
        THEN /\ ret' = [call |-> "ParseDump", args |-> data,
                        err |-> lineError(data[stop]), line |-> stop]
             /\ UNCHANGED <<Tables, heap, nextHandle, LastTransaction>>
             /\ UNCHANGED concVars
        ELSE /\ nextHandle + NumHandles(tx.operations) <= MaxHandle
             /\ LastTransaction' = <<[tx EXCEPT !.objs = r.objs]>>
             /\ Tables' = updatedTables
             /\ heap' = Reachable(r.heap, updatedTables)
             /\ nextHandle' = r.nextHandle
             /\ ret' = [call |-> "ParseDump", args |-> data, err |-> r.err,
                        line |-> 0]
             /\ UNCHANGED concVars

GoodLines ==
    {writeOperation(addVerb, o) :
        o \in {TableObj(""), ChainObj("c1"),
               RuleObj("c1", <<Word("jump"), Word("c2")>>, Nil, Nil)}}

BadLines ==
    {writeOperation(deleteVerb, ChainObj("c1")),
     writeOperation(addVerb, InTable(ChainObj("c1"), "t0")),
     [verb |-> addVerb, kind |-> "quota", table |-> DefaultTable],
     [verb |-> addVerb, kind |-> "chain", table |-> DefaultTable, malformed |-> TRUE]}

\* the texts: every text of one or two lines, and texts of three lines
\* that begin with the table and the chain
ParseTexts ==
    LET L == GoodLines \cup BadLines \cup {BlankLine}
    IN  {<<a>> : a \in L} \cup {<<a, b>> : a \in L, b \in L}
        \cup {<<writeOperation(addVerb, TableObj("")),
                writeOperation(addVerb, ChainObj("c1")), c>> : c \in L}

NextParse == \E data \in ParseTexts : ParseDump(data)

SpecParse == Init /\ [][NextParse]_vars

\* a line that ParseDump rejects: it has not the shape of an add line, it
\* names a kind that is not known, the parser of its kind fails, or it
\* names another table than the engine's
BadLine(line) ==
    /\ IsLine(line)
    /\ \/ line.verb # addVerb
       \/ line.kind \notin ParsedKinds
       \/ "malformed" \in DOMAIN line
       \/ line.table # DefaultTable

Working == {t \in Threads : thr[t].pc \in {"apply", "return"}}

\* C39: after the clone step no object that the apply pass may write is
\* shared between the working copy and the committed forest (in the model
\* the FakeCounters are the objects held by address), so no step of the
\* apply pass changes what the committed forest holds.
C39_CloneIsolation ==
    /\ [](\A t \in Working :
             CounterAddrs(thr[t].Tables) \cap CounterAddrs(Tables) = {})
    /\ [][(\E t \in Threads : thr[t].pc = "apply" /\ thr'[t] # thr[t]) =>
             Deref(Tables', heap') = Deref(Tables, heap)]_vars

\* C40: when the engine's table is there, ListCounters returns one entry
\* that is not nil for each counter of the table and nothing else - the
\* result is as long as the table has counters - and each entry carries
\* the name, handle, comment, packets and bytes of its counter.
C40_ListCountersResult ==
    [][(obs' # obs /\ obs'.call = "ListCounters"
                  /\ DefaultTable \in DOMAIN Tables) =>
        LET result == obs'.result.counters
            c == Tables[DefaultTable].Counters
        IN  /\ Len(result) = Cardinality(DOMAIN c)
            /\ \A i \in DOMAIN result : result[i] # Nil
            /\ \A n \in DOMAIN c :
                  Cardinality({i \in DOMAIN result :
                                 result[i] = PtrTo(heap[c[n]].Counter)}) = 1]_vars

====
